---- MODULE Spec2Model ----
(***************************************************************************)
(* A model of pylwdrone: the stream session engine of LWDrone              *)
(* (lwdrone.py), the file download built on it (get_file), the argument    *)
(* checks of the single-shot operations and the Command codec              *)
(* (command.py).                                                           *)
(*                                                                         *)
(* A "session" is one call of start_video_stream, start_recording_replay   *)
(* or get_file: a generator (or, for get_file, the call frame that drives  *)
(* the generator) with its own position pc[s] and its own stream socket.   *)
(* All sessions share the LWDrone instance: _streaming and _lasttime.      *)
(***************************************************************************)
EXTENDS Integers, Sequences, FiniteSets, TLC

\* ------------------------------------------------------------------ bounds
NumSessions == 2      \* calls of a stream operation in one behaviour
MaxFrames == 2        \* headers the device delivers on one stream socket
ClockMax == 3         \* last clock value in the untimed specifications
MaxFileFrames == 4    \* headers the device delivers during one download
TimedClockMax == 21   \* last clock value in the timed specification
MaxSetArgs == 2       \* set_arg and body assignments on one Command
MaxCount == 7         \* leading digits of a frame count
MaxSize == 12         \* size of a frame's data

\* ------------------------------------------------------- program constants
CONNECT_TIMEOUT == 15
STREAM_HB_PERIOD == 1
\* The nesting of calls that CPython allows before it raises RecursionError:
\* sys.getrecursionlimit(), which the program never changes.
RecursionLimit == 1000

Sessions == 1..NumSessions
Kinds == {"video", "replay", "file"}

VARIABLES
    streaming,   \* LWDrone._streaming
    lasttime,    \* LWDrone._lasttime
    now,         \* datetime.datetime.now().timestamp(), in seconds
    pc,          \* position of each session in its code
    kind,        \* frame_cls of the session: video, replay or file
    sock,        \* the session's stream socket: none, open, closed
    wrote,       \* the commands written on the session's socket, in order
    exit,        \* why the while loop of _stream_loop was left
    result,      \* how the call ended, as its caller sees it
    nread,       \* headers read from the socket so far
    nyield,      \* frames yielded to the consumer so far
    hdr,         \* cmdtype of the header read last
    cur,         \* the frame yielded last (a FileFrame for get_file)
    idle,        \* seconds the pending recv has waited on a silent device
    stalled,     \* the device has stopped sending on this connection
    stopAt,      \* clock value of a stop call made while the read was blocked
    overlap,     \* the session acquired the stream while another was reading
    stopTries,   \* sendall(stop_cmd) calls made by the session
    readAfterStop, \* a header was read after the stop command was sent
    lastHb,      \* the client time of the session's last heartbeat, -1 before
    depth,       \* _get_frame calls nested in the running call of line 370
    owner,       \* the session whose compare-and-set set _streaming, else 0
    superseded,  \* a later session set the flag while this one was at its yield
    started,     \* get_file: local `started`
    sink,        \* get_file: bytes written to outfp
    md5,         \* get_file: state of the running hashlib.md5()
    rmd5,        \* get_file: local `rmd5`
    rx,          \* get_file: the file frames the device delivered, in order
    op,          \* the single-shot operation called last
    arg,         \* its arguments
    apc,         \* position of that call in its code
    cmd,         \* the Command handed to _send_cmd
    conns,       \* socket.create_connection calls made by the call
    cmdsock,     \* the socket of _send_cmd: none, open, closed
    sent,        \* the commands written on the command port by the call
    rcmd,        \* the Command _send_cmd returned last
    config,      \* set_config: the Config read by get_config, as modified
    ret,         \* how the call ended, as its caller sees it
    cobj,        \* a Command object: _cmdtype, _args, _body
    cpc,         \* what was done with it: none, built, encoded, decoded, header
    nset,        \* set_arg and body assignments made on it
    buf,         \* the bytes on the wire: what to_bytes returned, as received
    damaged,     \* the bytes were changed on the way
    dec,         \* what from_bytes made of buf
    fn,          \* the function of responses.py applied last, or none
    inp,         \* its arguments
    out,         \* what it returned
    cli,         \* one run of the command line: main and its subcommand
    io_pc,       \* _send_cmd, byte by byte: the position of the call
    io_log,      \* the calls it made on its socket, in order
    recv_n,      \* _recvall: n of the running call
    recv_tot,    \* _recvall: tot of the running call
    nrecv,       \* _recvall: s.recv calls made by the running call
    hdr_len,     \* len(hdr_bytes), -1 before _recvall returned it
    body_size,   \* hdr.get_arg(HDR_ARG_BODYSZ), -1 before the header decoded
    body_len,    \* len(hdr.body), -1 before _recvall returned it
    io_ret       \* how _send_cmd ended: none, returned or the exception

streamVars == <<streaming, lasttime, now, pc, kind, sock, wrote, exit, result,
                nread, nyield, hdr, cur, idle, stalled, stopAt, overlap,
                stopTries, readAfterStop, lastHb, depth, owner,
                superseded>>
fileVars == <<started, sink, md5, rmd5, rx>>
apiVars == <<op, arg, apc, cmd, conns, cmdsock, sent, rcmd, config, ret>>
codecVars == <<cobj, cpc, nset, buf, damaged, dec>>
pureVars == <<fn, inp, out>>
cliVars == <<cli>>
wireVars == <<io_pc, io_log, recv_n, recv_tot, nrecv, hdr_len, body_size,
              body_len, io_ret>>
callVars == <<apiVars, codecVars, pureVars, cliVars, wireVars>>
vars == <<streamVars, fileVars, callVars>>

\* ---------------------------------------------------------------- values
NoFrame == [flag |-> "none", payload |-> <<>>, md5 |-> ""]
\* A decoded VideoFrame or ReplayFrame; its bytes play no part in the engine.
VideoFrame == [flag |-> "h264", payload |-> <<>>, md5 |-> ""]
FileFrameFlag == {"notfound", "start", "frame", "end"}

\* The request each operation sends first on the stream socket.
StartCmd(k) ==
    CASE k = "video" -> "startstream"
      [] k = "replay" -> "startreplay"
      [] OTHER -> "getfile"

\* VideoFrame.STOP_CMDTYPE, ReplayFrame.STOP_CMDTYPE (FileFrame has none).
STOP_CMDTYPE_same(k) == "stopstream"
STOP_CMDTYPE(k) == IF k = "replay" THEN "stopreplay" ELSE "stopstream"

\* hashlib.md5 stands behind a small digest: the sum of the bytes modulo 16,
\* printed by hexdigest() as one lower-case hexadecimal digit.
HexDigits == <<"0", "1", "2", "3", "4", "5", "6", "7", "8", "9",
               "a", "b", "c", "d", "e", "f">>
RECURSIVE SumBytes(_)
SumBytes(b) == IF b = <<>> THEN 0 ELSE Head(b) + SumBytes(Tail(b))
md5_new == 0
md5_update(h, b) == (h + SumBytes(b)) % 16
hexdigest(h) == HexDigits[h + 1]

\* LWDrone._compare_and_set_streaming(c, v): what it returns, what it leaves.
cas_ok(c) == streaming = c
compare_and_set_streaming(c, v) == IF streaming = c THEN v ELSE streaming

\* A session that is connected and reading a frame from its socket.
Reading(s) == sock[s] = "open" /\ pc[s] \in {"recv_hdr", "recv_body"}
Ended(s) == pc[s] = "done"

\* ------------------------------------------- the single-shot operations
\* An optional argument: None, or the value given.
None == <<>>
Some(v) == <<v>>
Val(o) == o[1]

\* A str is a sequence of characters; str.encode() gives its UTF-8 bytes,
\* one for "a", two for "eacute".
Utf8(ch) == IF ch = "eacute" THEN <<195, 169>> ELSE <<97>>
RECURSIVE encode(_)
encode(str) == IF str = <<>> THEN <<>> ELSE Utf8(Head(str)) \o encode(Tail(str))

MAX_WIFI_NAME_LEN == 32
MAX_WIFI_PASS_LEN == 32

NoArgs == [num |-> 0, str |-> <<>>, wifi_chan |-> None, wifi_name |-> None,
           wifi_pass |-> None, wifi_sec |-> None, camflip |-> None]

\* A Config: the five fields to_bytes packs, and the attribute wifi_pass
\* that line 214 of lwdrone.py creates on the object.
NoConfig == [len |-> 0, wifi_chan |-> 0, flip |-> "none", wifi_sec |-> "none",
             wifi_name |-> <<>>, wifi_pass_ |-> <<>>, wifi_pass |-> None]
\* A Command of the single-shot operations: type, arg slot 1 and body.
NoCommand == [type |-> "none", arg1 |-> 0, body |-> NoConfig]
Command(t, a, b) == [type |-> t, arg1 |-> a, body |-> b]
\* A body of n bytes whose content plays no part.
Bytes(n) == [NoConfig EXCEPT !.len = n]

\* ------------------------------------------------------ the Command codec
\* CommandType, command.py lines 14-51: member name |-> value.
CommandType ==
    [heartbeat |-> 1, startstream |-> 2, stopstream |-> 3, settime |-> 4,
     gettime |-> 5, getrecplan |-> 6, getreclist |-> 8, startreplay |-> 9,
     stopreplay |-> 16, setrecplan |-> 17, getfile |-> 18, takepic |-> 19,
     delfile |-> 20, reformatsd |-> 21, setwifiname |-> 22,
     setwifipass |-> 23, setwifichan |-> 24, restartwifi |-> 25,
     setwifidefs |-> 32, getcamflip |-> 33, setcamflip |-> 34,
     getbaudrate |-> 35, setbaudrate |-> 36, getconfig |-> 37,
     setconfig |-> 38, getpiclist |-> 39, get1080p |-> 40, set1080p |-> 41,
     getpiclist2 |-> 42, takepic2 |-> 43, getrectime |-> 48,
     setrectime |-> 49, retstream |-> 257, retreplay |-> 259,
     retreplayend |-> 261, retgetfile |-> 262]
\* TLC's integers have 32 bits with the sign, so a Python int n is held as
\* <<hi, lo>> with n = hi * 65536 + lo and lo in 0..65535.
PyInt(n) == <<n \div 65536, n % 65536>>

\* CommandType(v): the member whose value is v, ValueError if there is none.
IsCommandType(v) == \E n \in DOMAIN CommandType : PyInt(CommandType[n]) = v
CommandTypeOf(v) == CHOOSE n \in DOMAIN CommandType : PyInt(CommandType[n]) = v

\* b'lewei_cmd\x00'
HDR_MAGIC == <<108, 101, 119, 101, 105, 95, 99, 109, 100, 0>>
HDR_NUM_INTS == 9
HDR_MAGIC_LEN == Len(HDR_MAGIC)
HDR_INTS_OFF == HDR_MAGIC_LEN
HDR_LEN == HDR_MAGIC_LEN + HDR_NUM_INTS * 4
HDR_ARG_BODYSZ == 2

\* struct's '<I': four bytes, least significant first.
IsUint32(v) == 0 <= v[1] /\ v[1] < 65536
pack_u32(v) == <<v[2] % 256, v[2] \div 256, v[1] % 256, v[1] \div 256>>
unpack_u32_be(b, off) ==
    <<256 * b[off + 1] + b[off + 2], 256 * b[off + 3] + b[off + 4]>>
unpack_u32(b, off) ==
    <<b[off + 3] + 256 * b[off + 4], b[off + 1] + 256 * b[off + 2]>>
RECURSIVE pack_ints(_)
pack_ints(vs) ==
    IF vs = <<>> THEN <<>> ELSE pack_u32(Head(vs)) \o pack_ints(Tail(vs))
\* struct.unpack_from('<9I', hdr, off)
unpack_ints(b, off) ==
    [i \in 1..HDR_NUM_INTS |-> unpack_u32(b, off + 4 * (i - 1))]

NoCmd == [cmdtype |-> "none", args |-> <<>>, body |-> <<>>]
NoDecoded == [status |-> "none", cmd |-> NoCmd]

\* Command.__init__, lines 73-79.
Command_init(cmdtype, body) ==
    [cmdtype |-> cmdtype,
     args |-> [i \in 1..(HDR_NUM_INTS - 1) |->
                  IF i = HDR_ARG_BODYSZ + 1 THEN PyInt(Len(body)) ELSE PyInt(0)],
     body |-> body]

\* Command.to_bytes, lines 109-119; struct.error when an int does not fit.
CanPack(c) == \A i \in 1..Len(c.args) : IsUint32(c.args[i])
Command_to_bytes(c) ==
    HDR_MAGIC \o pack_ints(<<PyInt(CommandType[c.cmdtype])>> \o c.args) \o c.body

\* from_bytes without the test of the magic
Command_from_bytes_any_magic(data) ==
    IF data = <<>> \/ Len(data) < HDR_LEN
      THEN [status |-> "IOError", cmd |-> NoCmd]
      ELSE LET ints == unpack_ints(data, HDR_INTS_OFF)
           IN  IF ~IsCommandType(ints[1])
                 THEN [status |-> "ValueError", cmd |-> NoCmd]
                 ELSE [status |-> "ok",
                       cmd |-> [cmdtype |-> CommandTypeOf(ints[1]),
                                args |-> Tail(ints),
                                body |-> SubSeq(data, HDR_LEN + 1,
                                                Len(data))]]

\* Command.from_bytes, lines 121-137.
Command_from_bytes(data) ==
    IF data = <<>> \/ Len(data) < HDR_LEN
      THEN [status |-> "IOError", cmd |-> NoCmd]
      ELSE IF SubSeq(data, 1, HDR_MAGIC_LEN) # HDR_MAGIC
        THEN [status |-> "ValueError", cmd |-> NoCmd]
        ELSE LET ints == unpack_ints(data, HDR_INTS_OFF)
             IN  IF ~IsCommandType(ints[1])
                   THEN [status |-> "ValueError", cmd |-> NoCmd]
                   ELSE [status |-> "ok",
                         cmd |-> [cmdtype |-> CommandTypeOf(ints[1]),
                                  args |-> Tail(ints),
                                  body |-> SubSeq(data, HDR_LEN + 1,
                                                  Len(data))]]

\* ---------------------------------------------------- Python integers
\* An int of any size, as _fix_byte computes with: its binary digits, least
\* significant first, without leading zeros (0 is <<>>).
SetMax(S) == CHOOSE x \in S : \A y \in S : y <= x
int_norm(a) == SubSeq(a, 1, SetMax({0} \cup {i \in 1..Len(a) : a[i] = 1}))
int_of(n) == int_norm([i \in 1..31 |-> (n \div 2^(i - 1)) % 2])
int_bit(a, i) == IF i <= Len(a) THEN a[i] ELSE 0
int_width(a, b) == IF Len(a) > Len(b) THEN Len(a) ELSE Len(b)
\* the k-th byte of a, from 0, and the digits of a byte
bits_byte(a, k) ==
    int_bit(a, 8*k + 1) + 2 * int_bit(a, 8*k + 2) + 4 * int_bit(a, 8*k + 3)
        + 8 * int_bit(a, 8*k + 4) + 16 * int_bit(a, 8*k + 5)
        + 32 * int_bit(a, 8*k + 6) + 64 * int_bit(a, 8*k + 7)
        + 128 * int_bit(a, 8*k + 8)
byte_bits(x) == [i \in 1..8 |-> (x \div 2^(i - 1)) % 2]
\* a & (2^w - 1)
int_low(a, w) == int_norm(SubSeq(a, 1, IF Len(a) < w THEN Len(a) ELSE w))
\* a << s, a >> s
int_shl(a, s) == IF a = <<>> THEN <<>> ELSE [i \in 1..s |-> 0] \o a
int_shr(a, s) == IF Len(a) <= s THEN <<>> ELSE SubSeq(a, s + 1, Len(a))
\* a + b + c from byte k on, with c in {0, 1}
RECURSIVE int_addc(_, _, _, _)
int_addc(a, b, k, c) ==
    IF 8 * k >= int_width(a, b)
      THEN <<c>>
      ELSE LET t == bits_byte(a, k) + bits_byte(b, k) + c
           IN  byte_bits(t % 256) \o int_addc(a, b, k + 1, t \div 256)
int_add(a, b) == int_norm(int_addc(a, b, 0, 0))
\* a + b where a ^ b is meant
int_xor_as_add(a, b) == int_norm(int_addc(a, b, 0, 0))
\* a ^ b
int_xor(a, b) ==
    int_norm([i \in 1..int_width(a, b) |-> (int_bit(a, i) + int_bit(b, i)) % 2])
\* a against b: -1 below, 0 equal, 1 above
int_cmp(a, b) ==
    LET d == {i \in 1..int_width(a, b) : int_bit(a, i) # int_bit(b, i)}
    IN  IF d = {} THEN 0 ELSE int_bit(a, SetMax(d)) - int_bit(b, SetMax(d))
int_less(a, b) == int_cmp(a, b) < 0
\* a - b - c from byte k on, for a >= b + c, with c in {0, 1}
RECURSIVE int_subc(_, _, _, _)
int_subc(a, b, k, c) ==
    IF 8 * k >= Len(a)
      THEN <<>>
      ELSE LET t == bits_byte(a, k) - bits_byte(b, k) - c
           IN  byte_bits((t + 256) % 256)
                   \o int_subc(a, b, k + 1, IF t < 0 THEN 1 ELSE 0)
int_sub(a, b) == int_norm(int_subc(a, b, 0, 0))
\* a * b: st = <<i, t>> after the digits of b below i were multiplied
RECURSIVE int_mul_(_, _, _)
int_mul_(a, b, st) ==
    IF st[1] > Len(b)
      THEN st[2]
      ELSE int_mul_(a, b, <<st[1] + 1,
                            IF b[st[1]] = 1
                              THEN int_add(st[2], int_shl(a, st[1] - 1))
                              ELSE st[2]>>)
int_mul(a, b) == int_mul_(a, b, <<1, <<>>>>)
\* <<a // b, a % b>>, for b > 0: long division from the highest digit,
\* st = <<i, q, r>> before digit i of a is brought down
int_divstep(st, digit, b) ==
    LET r == int_norm(<<digit>> \o st[3])
    IN  IF int_less(r, b)
          THEN <<st[1] - 1, <<0>> \o st[2], r>>
          ELSE <<st[1] - 1, <<1>> \o st[2], int_sub(r, b)>>
RECURSIVE int_divmod_(_, _, _)
int_divmod_(a, b, st) ==
    IF st[1] = 0
      THEN <<int_norm(st[2]), st[3]>>
      ELSE int_divmod_(a, b, int_divstep(st, a[st[1]], b))
int_divmod(a, b) == int_divmod_(a, b, <<Len(a), <<>>, <<>>>>)
\* (a - b) & (2^w - 1), where a - b may be negative
int_sub_low(a, b, w) ==
    LET ones == [i \in 1..w |-> 1]
        nb == int_xor(int_low(b, w), ones)
    IN  int_low(int_add(int_add(int_low(a, w), nb), <<1>>), w)

\* ------------------------------------------------- VideoFrameUnmunger
\* The significant digits of a float.
MANT_DIG == 53
\* The rounding of a float's last digit: the discarded part against one half
\* (-1 below, 0 equal, 1 above); a tie goes to the even digit.
rounds_up(cmp, last) == cmp > 0 \/ (cmp = 0 /\ last = 1)
\* int(a / b) for b > 0: the true quotient rounded to the nearest float,
\* then truncated.
int_truediv(a, b) ==
    LET d == int_divmod(a, b)
        q == d[1]
        r == d[2]
        n == Len(q)
    IN  IF n >= MANT_DIG
          THEN LET s == n - MANT_DIG
                   m == int_shr(q, s)
                   lo == int_low(q, s)
                   half == int_shl(<<1>>, s - 1)
                   cmp == IF s = 0
                            THEN int_cmp(int_add(r, r), b)
                            ELSE IF int_cmp(lo, half) # 0
                                   THEN int_cmp(lo, half)
                                   ELSE IF r # <<>> THEN 1 ELSE 0
               IN  int_shl(IF rounds_up(cmp, int_bit(m, 1))
                             THEN int_add(m, <<1>>)
                             ELSE m, s)
          ELSE LET f == MANT_DIG - n
                   t == int_divmod(int_shl(r, f), b)
                   cmp == int_cmp(int_add(t[2], t[2]), b)
               IN  IF /\ rounds_up(cmp, int_bit(t[1], 1))
                      /\ int_add(t[1], <<1>>) = int_shl(<<1>>, f)
                     THEN int_add(q, <<1>>)
                     ELSE q
\* int(a / b) computed on integers alone.
int_floordiv(a, b) == int_divmod(a, b)[1]
\* VideoFrameUnmunger._fix_byte
fix_byte(p1, p2_) ==
    LET p2 == int_low(p2_, 32)
        v2 == IF int_bit(p2, 1) = 0
                THEN int_xor(int_add(int_add(p2, <<1>>), int_xor(p2, p1)), p2)
                ELSE int_xor(int_add(int_xor(p2, p1), p2), p2)
        v1 == IF p2 # <<>> THEN int_truediv(v2, p2) ELSE <<>>
    IN  int_sub_low(v2, int_mul(v1, p2), 32)

\* ------------------------------------------- VideoFrameUnmunger.unmunge
\* VideoFrameUnmunger._MDATA1, responses.py line 615: 256 unsigned 16-bit values.
MDATA1 ==
    <<0, 1, 24840, 6011, 21329, 29026, 31771, 19115, 26746, 34363, 621, 376,
      1767, 31622, 22015, 2789, 10051, 17703, 2157, 18430, 15486, 27770,
      16345, 11975, 19079, 16558, 30005, 31783, 3231, 29572, 3433, 4993, 8272,
      8424, 25386, 31263, 31354, 7968, 4, 21276, 16501, 1007, 8902, 8551,
      33163, 17571, 21918, 5447, 7350, 7770, 11450, 19341, 7528, 30543, 18383,
      7046, 5617, 26646, 17806, 12295, 27311, 199, 6045, 17318, 7760, 6068,
      18859, 18350, 3331, 32490, 13744, 19609, 22472, 26961, 20745, 32614,
      28994, 9908, 11997, 9238, 2890, 3923, 33950, 15997, 525, 34746, 7069,
      12776, 29341, 16454, 18525, 10590, 21378, 1824, 24845, 26848, 9413,
      28880, 28045, 8327, 33811, 10143, 6575, 16055, 33058, 9490, 1908, 12741,
      28746, 27942, 22398, 11585, 25685, 19928, 24044, 13493, 15547, 35014,
      19360, 2751, 6634, 644, 17540, 1601, 31939, 12728, 31762, 32110, 25926,
      32881, 5148, 12298, 31098, 2071, 18235, 35098, 26807, 26003, 23946,
      17561, 20311, 21727, 14108, 33201, 26185, 32404, 2835, 17629, 15582,
      2038, 8002, 8456, 14950, 14119, 9635, 8041, 5470, 27392, 8394, 9079,
      14280, 1527, 25593, 30759, 16673, 28357, 8678, 16091, 23290, 14841,
      16467, 16090, 30790, 5775, 5180, 35085, 14595, 20945, 31632, 12140,
      2543, 14607, 27492, 35150, 12501, 21309, 27639, 6741, 4797, 27184,
      10555, 30242, 27885, 22643, 33013, 25160, 14400, 32488, 1823, 3273,
      11847, 3145, 6657, 18702, 3514, 27292, 6895, 31740, 24683, 33812, 5500,
      16741, 3219, 6649, 15355, 20444, 11655, 24899, 24239, 9673, 17541, 7553,
      9643, 23378, 6878, 3078, 21893, 24615, 21535, 33892, 12862, 27352,
      18872, 7223, 24000, 27403, 21156, 10844, 9454, 23150, 26571, 8106,
      23878, 8543, 22511, 8990, 12050, 22248, 23293, 2828, 9082, 2856, 24488,
      34359, 13790, 11918>>
\* VideoFrameUnmunger._MDATA2, responses.py line 632: 256 unsigned 16-bit values.
MDATA2 ==
    <<0, 1, 30820, 29697, 1766, 19274, 10978, 3003, 19, 14731, 30091, 18219,
      22232, 19279, 21170, 22934, 22652, 3617, 7988, 22054, 15923, 26369,
      24083, 13552, 1315, 24962, 8276, 1085, 25848, 21718, 34593, 31448,
      33554, 5469, 16196, 3787, 14709, 29201, 3903, 30687, 14376, 26042, 463,
      9744, 17492, 33667, 15247, 34906, 32667, 11161, 17362, 350, 24753, 9872,
      15850, 26666, 21874, 6093, 27368, 15919, 5811, 6136, 6076, 12162, 361,
      15783, 28010, 444, 19499, 30590, 13329, 15208, 33608, 27391, 28863,
      25887, 34966, 2092, 19117, 31775, 8801, 28800, 19844, 12211, 20545,
      16535, 23175, 19873, 29514, 9930, 35087, 18802, 8392, 13704, 12329,
      22973, 212, 13293, 33012, 8165, 33776, 11479, 21002, 13690, 14471,
      17671, 27639, 30375, 16228, 23546, 6423, 26696, 15217, 23730, 14589,
      2656, 4518, 1773, 31828, 25487, 13550, 15539, 2895, 11751, 18394, 25246,
      28341, 28281, 8192, 22576, 27085, 23035, 18112, 13756, 33076, 13588,
      33540, 6312, 20132, 8874, 3072, 6753, 2634, 12212, 11040, 20581, 9718,
      24357, 25871, 27919, 27632, 1359, 32013, 14965, 20184, 31211, 11422,
      9770, 21878, 24028, 21073, 25108, 19276, 8340, 5991, 1238, 25652, 1814,
      8449, 6629, 18128, 32835, 3417, 31935, 20196, 21096, 198, 27755, 20866,
      22828, 31835, 34895, 13630, 8035, 11207, 32806, 20548, 364, 3380, 21419,
      5168, 17245, 24985, 3332, 19408, 35008, 7846, 902, 16484, 14094, 16899,
      27026, 17715, 25055, 19989, 12830, 11264, 6170, 16512, 11966, 22563,
      13663, 18367, 22988, 8236, 34185, 20615, 7172, 3162, 34750, 17302,
      34620, 16265, 28625, 33733, 17689, 9579, 33758, 29423, 13379, 22262,
      28129, 25629, 21203, 4661, 8918, 1737, 14115, 13682, 25890, 23973,
      12135, 984, 10053, 34995, 8252, 27201, 27694, 34584, 34069, 9675, 20337,
      16462, 24777, 31961, 25947>>
\* VideoFrameUnmunger._MDATA3, responses.py line 649: 256 unsigned 16-bit values.
MDATA3 ==
    <<0, 1, 18678, 31475, 28239, 34324, 17303, 13, 19689, 27894, 34229, 2855,
      29579, 5753, 31716, 18702, 18426, 13941, 14268, 32529, 18969, 22162,
      23445, 22263, 33096, 34221, 5652, 7068, 15277, 5357, 19132, 4318, 722,
      3743, 615, 24016, 21662, 15293, 1435, 23957, 10172, 13975, 13841, 15007,
      18092, 33860, 437, 31580, 1778, 169, 10277, 25782, 19056, 17287, 9488,
      10365, 9676, 24975, 32777, 4549, 28948, 22192, 12168, 10792, 10427,
      18976, 3133, 27854, 17312, 23297, 22781, 4795, 33519, 24184, 27060,
      13613, 28667, 1932, 11452, 19784, 4416, 3191, 2373, 5791, 32697, 22084,
      32968, 14639, 24844, 34340, 22655, 4423, 35013, 32304, 8245, 28074,
      31915, 9689, 25295, 18241, 30541, 29134, 6475, 34764, 16740, 32028,
      12195, 6974, 93, 27382, 20604, 8552, 28440, 20007, 26836, 15635, 24606,
      4519, 34460, 5318, 33583, 23752, 11253, 5259, 26907, 17149, 9569, 1785,
      17601, 13550, 186, 30106, 8845, 681, 5991, 15247, 21766, 7695, 33205,
      28103, 316, 25567, 20275, 29537, 21580, 7310, 29398, 6642, 22885, 17864,
      31256, 33975, 27332, 27738, 23321, 20236, 22999, 17001, 33686, 3230,
      13096, 7955, 1496, 27314, 27497, 21599, 11756, 1061, 8052, 24989, 34643,
      29539, 3438, 8798, 20149, 22677, 7645, 20148, 16430, 33850, 4149, 34534,
      3110, 5101, 26393, 21755, 20845, 9582, 4119, 21518, 33923, 18779, 2801,
      22448, 24973, 2992, 22686, 23540, 28409, 22918, 22819, 14656, 24574,
      34458, 16079, 28061, 19727, 24172, 33582, 22358, 2435, 14301, 3468,
      22738, 12906, 21148, 13087, 20951, 20908, 7195, 9858, 20516, 3436, 7245,
      9386, 10601, 12103, 28365, 25790, 3449, 11630, 13476, 30522, 1165, 1865,
      34056, 6078, 32666, 7995, 14274, 20750, 1515, 17409, 24443, 292, 30744,
      31849, 960, 14974, 23785, 2990, 10307, 142, 20367, 21929, 18552>>

\* enumerate(table) with `if b == p: ... break`: the index, from 0, of the
\* first entry equal to p, or -1 when the loop ends without a match.
mdata_index(table, p) ==
    IF \E i \in 1..Len(table) : table[i] = p
      THEN (CHOOSE i \in 1..Len(table) :
                /\ table[i] = p
                /\ \A j \in 1..(i - 1) : table[j] # p) - 1
      ELSE -1

\* x ^ y on two bytes, as a sum where the bits differ
bxor_as_add(x, y) == (x + y) % 256
\* x ^ y on two bytes.
bxor(x, y) ==
    LET b(i) == (((x \div 2^i) % 2) + ((y \div 2^i) % 2)) % 2
    IN  b(0) + 2 * b(1) + 4 * b(2) + 8 * b(3) + 16 * b(4) + 32 * b(5)
          + 64 * b(6) + 128 * b(7)
\* ~x & 0xff on a byte: ~x is -x - 1.
invert_low(x) == (0 - x) % 256
invert_byte(x) == (0 - x - 1) % 256

\* A small int as a number.
RECURSIVE int_num(_)
int_num(a) == IF a = <<>> THEN 0 ELSE a[1] + 2 * int_num(Tail(a))

\* A bytearray under a sequence of item assignments: data[i] = v raises
\* IndexError when i is not below len(data), and so does reading data[i].
\* An array that raised stays as it is and keeps its exception.
NoBytes == [status |-> "none", data |-> <<>>]
InRange(r, i) == 0 <= i /\ i < Len(r.data)
setitem(r, i, v) ==
    IF r.status # "ok"
      THEN r
      ELSE IF InRange(r, i)
        THEN [r EXCEPT !.data[i + 1] = v]
        ELSE [r EXCEPT !.status = "IndexError"]
getitem(r, i) == IF InRange(r, i) THEN r.data[i + 1] ELSE 0
readable(r, i) == IF InRange(r, i) THEN r ELSE [r EXCEPT !.status = "IndexError"]

\* VideoFrameUnmunger.__init__, lines 575-580; key1 and key2 are header
\* ints, held as <<hi, lo>>.
VideoFrameUnmunger(stream_type, key1, key2) ==
    [type |-> stream_type, a |-> key1[2], b |-> key1[1], c |-> key2[2]]

\* _fix_midstream, lines 600-613: three loops, each patching one byte when
\* its key is in its table.
fix_midstream(r, idx, p1, p2, p3) ==
    LET i1 == mdata_index(MDATA1, p1)
        i2 == mdata_index(MDATA2, p2)
        i3 == mdata_index(MDATA3, p3)
        r1 == IF i1 >= 0 THEN setitem(r, idx, i1) ELSE r
        r2 == IF i2 >= 0 /\ r1.status = "ok"
                THEN setitem(readable(r1, idx), idx + 1,
                             bxor(getitem(r1, idx), i2))
                ELSE r1
        r3 == IF i3 >= 0 /\ r2.status = "ok"
                THEN setitem(readable(readable(r2, idx), idx + 1), idx + 2,
                             bxor(bxor(getitem(r2, idx), getitem(r2, idx + 1)),
                                  i3))
                ELSE r2
    IN  r3

\* unmunge, lines 582-589; size is a number, count an int of any size.
TYPE_ONE == 1
TYPE_NEW == 129
unmunge(su, r, size, count) ==
    IF su.type = TYPE_NEW
      THEN fix_midstream(r, size \div 2, su.a, su.b, su.c)
      ELSE IF su.type = TYPE_ONE
        THEN LET idx == fix_byte(count, int_of(size))
             IN  IF int_less(idx, int_of(size))
                   THEN setitem(r, int_num(idx),
                                invert_byte(getitem(r, int_num(idx))))
                   ELSE r
        ELSE r

\* VideoFrame._get_frame_bytes, lines 559-565: the frame's bytes are copied
\* into a bytearray and unmunged; an exception leaves no frame.
get_frame_bytes(su, data, size, count) ==
    IF Len(data) # size
      THEN [status |-> "ValueError", data |-> <<>>]
      ELSE LET r == unmunge(su, [status |-> "ok", data |-> data], size, count)
           IN  IF r.status = "ok" THEN r ELSE [r EXCEPT !.data = <<>>]

\* ---------------------------------------------------------- RecordPlan
RecordPlan_LEN == 20
\* RecordPlan._DAY_ABBRS: calendar.day_abbr from Sunday on.
DAY_ABBRS == <<"Sun", "Mon", "Tue", "Wed", "Thu", "Fri", "Sat">>
\* A datetime.time is <<hour, minute, second>>.
\* utils.secs_to_time for t < 86400 (ValueError from there on, see
\* RecordPlan_valid): int(t/86400 * 24) is t // 3600 for each such t.
secs_to_time(t) == <<(t * 24) \div 86400, (t % 3600) \div 60, t % 60>>
time_to_secs(t) == t[1] * 3600 + t[2] * 60 + t[3]
\* utils.hhmm_to_time: an 'HH:MM' string is <<HH, MM>>.
hhmm_to_time(hhmm) == <<hhmm[1], hhmm[2], 0>>
\* An argument of RecordPlan.__init__ is None, Some(<<"int", n>>),
\* Some(<<"str", hhmm>>), Some(<<"list", abbrs>>) or Some(<<"bool", b>>).
IsInt(o) == Val(o)[1] = "int"
Arg(o) == Val(o)[2]
\* bool(x) of an argument: None, 0, False and what is empty are false.
truth(o) ==
    /\ o # None
    /\ CASE Val(o)[1] = "int" -> Arg(o) # 0
         [] Val(o)[1] = "bool" -> Arg(o)
         [] OTHER -> Arg(o) # <<>>
day_list(flags) == [i \in 1..7 |-> (flags \div 2^(i - 1)) % 2 = 1]
to_time(o) == IF IsInt(o) THEN secs_to_time(Arg(o)) ELSE hhmm_to_time(Arg(o))
\* RecordPlan._get_defaults, lines 457-467; today is
\* datetime.datetime.now(tz).isoweekday() % 7.
get_defaults(today) ==
    [active |-> 1, day_flags |-> 2^today, start_time |-> 0,
     end_time |-> 60 * 60 * 24 - 1, max_dur |-> 5]
\* secs_to_time raises ValueError for the times __init__ converts
RecordPlan_valid(start_time, end_time) ==
    /\ (start_time # None /\ IsInt(start_time)) => Arg(start_time) < 86400
    /\ (truth(end_time) /\ IsInt(end_time)) => Arg(end_time) < 86400
\* RecordPlan.__init__, lines 405-455.
RecordPlan(active, active_days, start_time, end_time, max_duration_mins, today) ==
    LET d == get_defaults(today)
    IN  [active |-> IF active # None THEN Arg(active) ELSE d.active = 1,
         active_days |->
             IF active_days # None
               THEN IF IsInt(active_days)
                      THEN day_list(Arg(active_days))
                      ELSE [i \in 1..7 |-> DAY_ABBRS[i] \in Arg(active_days)]
               ELSE day_list(d.day_flags),
         start_time |-> IF start_time # None
                          THEN to_time(start_time)
                          ELSE secs_to_time(d.start_time),
         end_time |-> IF truth(end_time)
                        THEN to_time(end_time)
                        ELSE secs_to_time(d.end_time),
         max_duration |-> IF truth(max_duration_mins)
                            THEN Arg(max_duration_mins) * 60
                            ELSE d.max_dur * 60]
NoPlan == [active |-> FALSE, active_days |-> <<>>, start_time |-> <<>>,
           end_time |-> <<>>, max_duration |-> 0]
\* RecordPlan.to_bytes, lines 507-517.
RECURSIVE day_flags(_, _)
day_flags(days, i) ==
    IF i = 0
      THEN 0
      ELSE day_flags(days, i - 1) + (IF days[i] THEN 2^(i - 1) ELSE 0)
RecordPlan_to_bytes(r) ==
    pack_ints(<<PyInt(IF r.active THEN 1 ELSE 0),
                PyInt(day_flags(r.active_days, 7)),
                PyInt(time_to_secs(r.start_time)),
                PyInt(time_to_secs(r.end_time)),
                PyInt(r.max_duration)>>)
\* the int of an unpacked field
int_value(v) == v[1] * 65536 + v[2]
\* RecordPlan.from_bytes, lines 519-526.
RecordPlan_from_bytes(data, today) ==
    IF Len(data) # RecordPlan_LEN
      THEN [status |-> "ValueError", plan |-> NoPlan]
      ELSE LET f == [i \in 1..5 |-> Some(<<"int", int_value(unpack_u32(data, 4 * (i - 1)))>>)]
               active == Some(<<"bool", Arg(f[1]) # 0>>)
           IN  IF RecordPlan_valid(f[3], f[4])
                 THEN [status |-> "ok",
                       plan |-> RecordPlan(active, f[2], f[3], f[4], f[5], today)]
                 ELSE [status |-> "ValueError", plan |-> NoPlan]

\* ------------------------------------------- Heartbeat, RecordListItem
\* An int of either sign: its sign and its magnitude.
sint(neg, mag) == [neg |-> neg /\ mag # <<>>, mag |-> mag]
sint_add(a, b) ==
    IF a.neg = b.neg
      THEN sint(a.neg, int_add(a.mag, b.mag))
      ELSE IF int_less(a.mag, b.mag)
             THEN sint(b.neg, int_sub(b.mag, a.mag))
             ELSE sint(a.neg, int_sub(a.mag, b.mag))
sint_neg(a) == sint(~a.neg, a.mag)
\* datetime.timedelta(hours=h), in seconds
timedelta_hours(h) == sint(h < 0, int_of((IF h < 0 THEN -h ELSE h) * 3600))
\* A datetime with a tzinfo: what its clock reads, in seconds counted from
\* the reading 1970-01-01 00:00:00, and the offset of its timezone from UTC.
\* datetime.timestamp() is the reading less the offset.
timestamp(dt) == sint_add(dt.wall, sint_neg(dt.utcoffset))
\* 9999-12-31 23:59:59 UTC, the last instant a datetime can hold
MAX_TIMESTAMP == int_add(int_mul(int_of(253402), int_of(1000000)), int_of(300799))
\* datetime.datetime.fromtimestamp(t, tz) for t >= 0: ValueError or
\* OverflowError past year 9999
fromtimestamp_ok(t) == ~int_less(MAX_TIMESTAMP, t)
fromtimestamp(t, tz) == [wall |-> sint_add(sint(FALSE, t), tz), utcoffset |-> tz]
\* dt.replace(tzinfo=datetime.timezone.utc): the same reading, in UTC
replace_tzinfo_utc(dt) == [dt EXCEPT !.utcoffset = sint(FALSE, <<>>)]
NoTime == [wall |-> sint(FALSE, <<>>), utcoffset |-> sint(FALSE, <<>>)]
\* the hours of the timezone both parsers convert in
tz_hours == -8
\* struct: a little-endian unsigned field of n bytes at offset off
RECURSIVE unpack_uint(_, _, _)
unpack_uint(b, off, n) ==
    IF n = 0 THEN <<>> ELSE byte_bits(b[off + 1]) \o unpack_uint(b, off + 1, n - 1)
pack_uint(a, n) == [k \in 1..n |-> bits_byte(a, k - 1)]
zeros(n) == [i \in 1..n |-> 0]
\* the conversion with the timezone of the device, east of UTC
device_time_east(t) ==
    replace_tzinfo_utc(fromtimestamp(t, timedelta_hours(-tz_hours)))
\* the conversion of a device time, common to both parsers
device_time(t) ==
    replace_tzinfo_utc(fromtimestamp(t, timedelta_hours(tz_hours)))
Heartbeat_LEN == 64
\* Heartbeat.from_bytes, lines 258-274; '<IQQIQ32s' puts curr_time at 24.
Heartbeat_from_bytes(data) ==
    IF Len(data) # Heartbeat_LEN
      THEN [status |-> "ValueError", time |-> NoTime]
      ELSE LET curr_time == int_norm(unpack_uint(data, 24, 8))
           IN  IF fromtimestamp_ok(curr_time)
                 THEN [status |-> "ok", time |-> device_time(curr_time)]
                 ELSE [status |-> "ValueError", time |-> NoTime]
RecordListItem_LEN == 116
RecordListItem_PATH_MAX == 100
\* utils.cstr2str, before decoding: the bytes up to the first NUL
RECURSIVE cstr(_)
cstr(cs) ==
    IF cs = <<>> \/ Head(cs) = 0 THEN <<>> ELSE <<Head(cs)>> \o cstr(Tail(cs))
\* RecordListItem.iter_from_bytes, lines 380-394: the items it yields
RECURSIVE RecordListItems(_, _)
RecordListItems(data, i) ==
    IF i >= Len(data)
      THEN <<>>
      ELSE <<[start_time |-> device_time(int_norm(unpack_uint(data, i, 4))),
              time_len |-> int_norm(unpack_uint(data, i + 4, 4)),
              path |-> cstr(SubSeq(data, i + 17, i + 16 + RecordListItem_PATH_MAX))]>>
               \o RecordListItems(data, i + RecordListItem_LEN)
iter_from_bytes(data) ==
    IF Len(data) % RecordListItem_LEN # 0
      THEN [status |-> "ValueError", items |-> <<>>]
      ELSE [status |-> "ok", items |-> RecordListItems(data, 0)]

\* ------------------------------------------------------ the command line
\* One run of main: pc is the position in main and in the subcommand, sub
\* the subcommand, fp the file of utils.fopen, streaming the _streaming of
\* the LWDrone that main made, interrupt where a KeyboardInterrupt arrived,
\* hook what the stop hook returned, ret and code what main computed.
NoRun == [pc |-> "start", sub |-> "none", out_file |-> "-", quiet |-> FALSE,
          fp |-> "none", written |-> 0, streaming |-> FALSE,
          interrupt |-> "none", hook |-> "none", ret |-> "none", code |-> -1]
\* the subcommands that set_defaults gives a stop_func
HasStopFunc(sub) == sub \in {"stream start", "rec play"}
\* utils.fopen, lines 19-22: the file opened, or sys.stdout.buffer
fopen(filename) == IF filename # "-" THEN "open" ELSE "stdout"
\* utils.fopen, lines 25-28: any exception of the with body closes the file
\* and is not raised again
fopen_except(fp) == IF fp # "stdout" THEN "closed" ELSE fp

\* ------------------------------------------------------------------ Init
Init ==
    /\ streaming = FALSE
    /\ lasttime = 0
    /\ now = STREAM_HB_PERIOD + 1
    /\ pc = [s \in Sessions |-> "new"]
    /\ kind = [s \in Sessions |-> "none"]
    /\ sock = [s \in Sessions |-> "none"]
    /\ wrote = [s \in Sessions |-> <<>>]
    /\ exit = [s \in Sessions |-> "none"]
    /\ result = [s \in Sessions |-> "none"]
    /\ nread = [s \in Sessions |-> 0]
    /\ nyield = [s \in Sessions |-> 0]
    /\ hdr = [s \in Sessions |-> "none"]
    /\ cur = [s \in Sessions |-> NoFrame]
    /\ idle = [s \in Sessions |-> 0]
    /\ stalled = [s \in Sessions |-> FALSE]
    /\ stopAt = [s \in Sessions |-> 0]
    /\ overlap = [s \in Sessions |-> FALSE]
    /\ stopTries = [s \in Sessions |-> 0]
    /\ readAfterStop = [s \in Sessions |-> FALSE]
    /\ lastHb = [s \in Sessions |-> -1]
    /\ depth = [s \in Sessions |-> 0]
    /\ owner = 0
    /\ superseded = [s \in Sessions |-> FALSE]
    /\ started = [s \in Sessions |-> FALSE]
    /\ sink = [s \in Sessions |-> <<>>]
    /\ md5 = [s \in Sessions |-> md5_new]
    /\ rmd5 = [s \in Sessions |-> "None"]
    /\ rx = [s \in Sessions |-> <<>>]
    /\ op = "none"
    /\ arg = NoArgs
    /\ apc = "idle"
    /\ cmd = NoCommand
    /\ conns = 0
    /\ cmdsock = "none"
    /\ sent = <<>>
    /\ rcmd = NoCommand
    /\ config = NoConfig
    /\ ret = "none"
    /\ cobj = NoCmd
    /\ cpc = "none"
    /\ nset = 0
    /\ buf = <<>>
    /\ damaged = FALSE
    /\ dec = NoDecoded
    /\ fn = "none"
    /\ inp = <<>>
    /\ out = <<>>
    /\ cli = NoRun
    /\ io_pc = "idle"
    /\ io_log = <<>>
    /\ recv_n = 0
    /\ recv_tot = 0
    /\ nrecv = 0
    /\ hdr_len = -1
    /\ body_size = -1
    /\ body_len = -1
    /\ io_ret = "none"

\* ------------------------------------------------- the stream operations
\* The compare-and-set that opens a session (lwdrone.py lines 91, 307, 316):
\* on success the caller enters _stream_loop, otherwise it ends at once,
\* a generator with no frames, get_file with False.
Acquire(s, k) ==
    /\ kind' = [kind EXCEPT ![s] = k]
    /\ streaming' = compare_and_set_streaming(FALSE, TRUE)
    /\ owner' = IF cas_ok(FALSE) THEN s ELSE owner
    /\ superseded' = [t \in Sessions |->
                         \/ superseded[t]
                         \/ cas_ok(FALSE) /\ t # s /\ pc[t] = "yielded"]
    /\ overlap' = [overlap EXCEPT ![s] =
                      cas_ok(FALSE) /\ \E t \in Sessions \ {s} : Reading(t)]
    /\ IF cas_ok(FALSE)
         THEN /\ pc' = [pc EXCEPT ![s] = "connect"]
              /\ UNCHANGED result
         ELSE /\ pc' = [pc EXCEPT ![s] = "done"]
              /\ result' = [result EXCEPT ![s] =
                               IF k = "file" THEN "False" ELSE "empty"]
    /\ UNCHANGED <<lasttime, now, sock, wrote, exit, nread, nyield, hdr, cur,
                   idle, stalled, stopAt, stopTries, readAfterStop,
                   fileVars, callVars, lastHb,
                   depth>>

start_video_stream(s) ==
    /\ pc[s] = "new"
    /\ Acquire(s, "video")

\* get_recordings() answered and index is in the list.
start_recording_replay(s) ==
    /\ pc[s] = "new"
    /\ Acquire(s, "replay")

\* index is not in the list get_recordings() returned: ValueError, before
\* the flag is touched.
start_recording_replay_noindex(s) ==
    /\ pc[s] = "new"
    /\ kind' = [kind EXCEPT ![s] = "replay"]
    /\ pc' = [pc EXCEPT ![s] = "done"]
    /\ result' = [result EXCEPT ![s] = "ValueError"]
    /\ UNCHANGED <<streaming, lasttime, now, sock, wrote, exit, nread, nyield,
                   hdr, cur, idle, stalled, stopAt, overlap, stopTries,
                   readAfterStop, fileVars, callVars, lastHb,
                   depth, owner, superseded>>

get_file(s) ==
    /\ pc[s] = "new"
    /\ Acquire(s, "file")

\* stop_video_stream() and stop_recording_replay(): the same compare-and-set.
StopStream ==
    /\ streaming' = compare_and_set_streaming(TRUE, FALSE)
    /\ owner' = IF cas_ok(TRUE) THEN 0 ELSE owner
    /\ stopAt' = [s \in Sessions |->
                    IF /\ cas_ok(TRUE)
                       /\ kind[s] = "video"
                       /\ pc[s] = "recv_hdr"
                       /\ stalled[s]
                      THEN now
                      ELSE stopAt[s]]
    /\ UNCHANGED <<lasttime, now, pc, kind, sock, wrote, exit, result, nread,
                   nyield, hdr, cur, idle, stalled, overlap, stopTries,
                   readAfterStop, fileVars, callVars, lastHb,
                   depth, superseded>>

stop_video_stream == StopStream

stop_recording_replay == StopStream

\* an exception that leaves the with statement without closing the socket
Raise_open(s, e) ==
    /\ pc' = [pc EXCEPT ![s] = "done"]
    /\ result' = [result EXCEPT ![s] = e]
    /\ UNCHANGED sock

\* ----------------------------------------------------------- _stream_loop
\* An exception leaves _stream_loop: the with block closes the socket, line
\* 387 is not reached, and the caller of next() (for get_file, the caller
\* of get_file) sees the exception.
Raise(s, e) ==
    /\ pc' = [pc EXCEPT ![s] = "done"]
    /\ result' = [result EXCEPT ![s] = e]
    /\ sock' = [sock EXCEPT ![s] = IF sock[s] = "open" THEN "closed" ELSE @]

\* IOError inside the try block: caught at line 384, then line 387.
Swallow(s) ==
    /\ pc' = [pc EXCEPT ![s] = "cas_end"]
    /\ exit' = [exit EXCEPT ![s] = "ioerror"]

\* line 365: socket.create_connection succeeds.
stream_loop_connect(s) ==
    /\ pc[s] = "connect"
    /\ sock' = [sock EXCEPT ![s] = "open"]
    /\ pc' = [pc EXCEPT ![s] = "send_start"]
    /\ UNCHANGED <<streaming, lasttime, now, kind, wrote, exit, result, nread,
                   nyield, hdr, cur, idle, stalled, stopAt, overlap,
                   stopTries, readAfterStop, fileVars, callVars, lastHb,
                   depth, owner, superseded>>

\* line 365: socket.create_connection raises (refused, unreachable, timeout).
stream_loop_connect_fail(s) ==
    /\ pc[s] = "connect"
    /\ Raise(s, "ConnectError")
    /\ UNCHANGED <<streaming, lasttime, now, kind, wrote, exit, nread, nyield,
                   hdr, cur, idle, stalled, stopAt, overlap, stopTries,
                   readAfterStop, fileVars, callVars, lastHb,
                   depth, owner, superseded>>

\* line 367: the start command is sent.
stream_loop_send(s) ==
    /\ pc[s] = "send_start"
    /\ wrote' = [wrote EXCEPT ![s] = Append(@, StartCmd(kind[s]))]
    /\ pc' = [pc EXCEPT ![s] = "loop"]
    /\ UNCHANGED <<streaming, lasttime, now, kind, sock, exit, result, nread,
                   nyield, hdr, cur, idle, stalled, stopAt, overlap,
                   stopTries, readAfterStop, fileVars, callVars, lastHb,
                   depth, owner, superseded>>

\* line 367: sendall raises; the statement stands before the try block.
stream_loop_send_fail(s) ==
    /\ pc[s] = "send_start"
    /\ Raise(s, "IOError")
    /\ UNCHANGED <<streaming, lasttime, now, kind, wrote, exit, nread, nyield,
                   hdr, cur, idle, stalled, stopAt, overlap, stopTries,
                   readAfterStop, fileVars, callVars, lastHb,
                   depth, owner, superseded>>

\* line 369: while self._streaming.
stream_loop_while(s) ==
    /\ pc[s] = "loop"
    /\ IF streaming
         THEN /\ pc' = [pc EXCEPT ![s] = "recv_hdr"]
              /\ idle' = [idle EXCEPT ![s] = 0]
              /\ UNCHANGED exit
         ELSE /\ pc' = [pc EXCEPT ![s] = "send_stop"]
              /\ exit' = [exit EXCEPT ![s] = "flag"]
              /\ UNCHANGED idle
    /\ UNCHANGED <<streaming, lasttime, now, kind, sock, wrote, result, nread,
                   nyield, hdr, cur, stalled, stopAt, overlap, stopTries,
                   readAfterStop, fileVars, callVars, lastHb,
                   depth, owner, superseded>>

\* _get_frame lines 390-391: 46 header bytes arrive and Command.from_bytes
\* decodes them; t is the header's cmdtype ("frame": any type that is neither
\* heartbeat nor retreplayend; "empty": such a type with a body size of 0).
get_frame_header(s, t, limit) ==
    /\ pc[s] = "recv_hdr"
    /\ ~stalled[s]
    /\ nread[s] < limit
    /\ hdr' = [hdr EXCEPT ![s] = t]
    /\ nread' = [nread EXCEPT ![s] = @ + 1]
    /\ idle' = [idle EXCEPT ![s] = 0]
    /\ readAfterStop' = [readAfterStop EXCEPT ![s] = @ \/ stopTries[s] > 0]
    /\ pc' = [pc EXCEPT ![s] = "recv_body"]
    /\ UNCHANGED <<streaming, lasttime, now, kind, sock, wrote, exit, result,
                   nyield, cur, stalled, stopAt, overlap, stopTries, fileVars,
                   callVars, lastHb,
                   depth, owner, superseded>>

\* _get_frame line 391: the 46 bytes do not start with the magic, or their
\* cmdtype is no CommandType: Command.from_bytes raises ValueError.
get_frame_header_invalid(s, limit) ==
    /\ pc[s] = "recv_hdr"
    /\ ~stalled[s]
    /\ nread[s] < limit
    /\ nread' = [nread EXCEPT ![s] = @ + 1]
    /\ Raise(s, "ValueError")
    /\ exit' = [exit EXCEPT ![s] = "framing"]
    /\ UNCHANGED <<streaming, lasttime, now, kind, wrote, nyield, hdr,
                   cur, idle, stalled, stopAt, overlap, stopTries,
                   readAfterStop, fileVars, callVars, lastHb,
                   depth, owner, superseded>>

\* _recvall lines 406-413: recv fails, or the peer closes before n bytes
\* have come: IOError, for the header or for the body.
recvall_fail(s) ==
    /\ pc[s] \in {"recv_hdr", "recv_body"}
    /\ Swallow(s)
    /\ UNCHANGED <<streaming, lasttime, now, kind, sock, wrote, result, nread,
                   nyield, hdr, cur, idle, stalled, stopAt, overlap,
                   stopTries, readAfterStop, fileVars, callVars, lastHb,
                   depth, owner, superseded>>

\* The socket carries the timeout given to create_connection (line 365): a
\* recv that stays blocked for _CONNECT_TIMEOUT seconds raises socket.timeout,
\* an OSError.
recvall_timeout(s) ==
    /\ pc[s] \in {"recv_hdr", "recv_body"}
    /\ idle[s] >= CONNECT_TIMEOUT
    /\ Swallow(s)
    /\ UNCHANGED <<streaming, lasttime, now, kind, sock, wrote, result, nread,
                   nyield, hdr, cur, idle, stalled, stopAt, overlap,
                   stopTries, readAfterStop, fileVars, callVars, lastHb,
                   depth, owner, superseded>>

\* The parameters of frame_cls.from_bytes: VideoFrame.from_bytes(su, data)
\* and ReplayFrame.from_bytes(su, data) (responses.py lines 546, 679), but
\* FileFrame.from_bytes(data) (line 202). All three are static methods.
from_bytes_params(k) == IF k = "file" THEN 1 ELSE 2

\* _get_frame lines 392-398 and _stream_loop lines 371-377: the body has
\* come. A heartbeat response is dropped and _get_frame calls itself for the
\* next frame (line 395); the call is a new Python frame on top of the one
\* that made it, and the one that would be nested RecursionLimit deep raises
\* RecursionError, which is no IOError and leaves _stream_loop. A
\* retreplayend or an empty body ends the loop (line 371). Any other frame
\* f is handed to frame_cls.from_bytes(fu, frame_packet), two arguments
\* (line 377): a static method of one parameter raises TypeError before it
\* looks at the bytes, otherwise the frame is decoded and yielded.
get_frame_body(s, f) ==
    /\ pc[s] = "recv_body"
    /\ ~stalled[s]
    /\ CASE hdr[s] = "heartbeat" /\ depth[s] + 1 < RecursionLimit ->
              /\ pc' = [pc EXCEPT ![s] = "recv_hdr"]
              /\ idle' = [idle EXCEPT ![s] = 0]
              /\ depth' = [depth EXCEPT ![s] = @ + 1]
              /\ UNCHANGED <<exit, nyield, cur, sock, result>>
         [] hdr[s] = "heartbeat" /\ depth[s] + 1 >= RecursionLimit ->
              /\ Raise(s, "RecursionError")
              /\ exit' = [exit EXCEPT ![s] = "recursion"]
              /\ UNCHANGED <<idle, nyield, cur, depth, owner, superseded>>
         [] hdr[s] \in {"retreplayend", "empty"} ->
              /\ pc' = [pc EXCEPT ![s] = "send_stop"]
              /\ exit' = [exit EXCEPT ![s] =
                             IF hdr[s] = "retreplayend" THEN "end" ELSE "empty"]
              /\ depth' = [depth EXCEPT ![s] = 0]
              /\ UNCHANGED <<idle, nyield, cur, sock, result>>
         [] hdr[s] = "frame" /\ from_bytes_params(kind[s]) # 2 ->
              /\ Raise(s, "TypeError")
              /\ exit' = [exit EXCEPT ![s] = "signature"]
              /\ depth' = [depth EXCEPT ![s] = 0]
              /\ UNCHANGED <<idle, nyield, cur>>
         [] OTHER ->
              /\ pc' = [pc EXCEPT ![s] = "yielded"]
              /\ nyield' = [nyield EXCEPT ![s] = @ + 1]
              /\ cur' = [cur EXCEPT ![s] = f]
              /\ depth' = [depth EXCEPT ![s] = 0]
              /\ UNCHANGED <<exit, idle, sock, result>>
    /\ hdr' = [hdr EXCEPT ![s] = "none"]
    /\ rx' = [rx EXCEPT ![s] = IF hdr[s] = "frame" /\ kind[s] = "file"
                                 THEN Append(@, f)
                                 ELSE @]
    /\ UNCHANGED <<streaming, lasttime, now, kind, wrote, nread, stalled,
                   stopAt, overlap, stopTries, readAfterStop, started, sink,
                   md5, rmd5, callVars, lastHb, owner,
                   superseded>>

\* line 377: frame_cls.from_bytes is entered and raises ValueError: the body
\* is not as long as the frame's size field says (responses.py line 561).
get_frame_body_invalid(s) ==
    /\ pc[s] = "recv_body"
    /\ ~stalled[s]
    /\ hdr[s] = "frame"
    /\ from_bytes_params(kind[s]) = 2
    /\ Raise(s, "ValueError")
    /\ exit' = [exit EXCEPT ![s] = "framing"]
    /\ UNCHANGED <<streaming, lasttime, now, kind, wrote, nread, nyield,
                   hdr, cur, idle, stalled, stopAt, overlap, stopTries,
                   readAfterStop, fileVars, callVars, lastHb,
                   depth, owner, superseded>>

\* a heartbeat after every frame, whatever the time
stream_loop_heartbeat_always(s) ==
    /\ pc[s] = "hb"
    /\ wrote' = [wrote EXCEPT ![s] = Append(@, "heartbeat")]
    /\ lasttime' = now
    /\ lastHb' = [lastHb EXCEPT ![s] = now]
    /\ pc' = [pc EXCEPT ![s] = "loop"]
    /\ UNCHANGED <<streaming, now, kind, sock, exit, result, nread, nyield,
                   hdr, cur, idle, stalled, stopAt, overlap, stopTries,
                   readAfterStop, fileVars, callVars, depth, owner, superseded>>

\* lines 378-381, after the consumer asked for the next frame: a heartbeat
\* is sent when more than _STREAM_HB_PERIOD has passed since the last one.
stream_loop_heartbeat(s) ==
    /\ pc[s] = "hb"
    /\ IF now - lasttime > STREAM_HB_PERIOD
         THEN /\ wrote' = [wrote EXCEPT ![s] = Append(@, "heartbeat")]
              /\ lasttime' = now
              /\ lastHb' = [lastHb EXCEPT ![s] = now]
         ELSE UNCHANGED <<wrote, lasttime, lastHb>>
    /\ pc' = [pc EXCEPT ![s] = "loop"]
    /\ UNCHANGED <<streaming, now, kind, sock, exit, result, nread, nyield,
                   hdr, cur, idle, stalled, stopAt, overlap, stopTries,
                   readAfterStop, fileVars, callVars, depth, owner, superseded>>

\* line 380: sendall(hb_bytes) raises IOError.
stream_loop_heartbeat_fail(s) ==
    /\ pc[s] = "hb"
    /\ now - lasttime > STREAM_HB_PERIOD
    /\ Swallow(s)
    /\ UNCHANGED <<streaming, lasttime, now, kind, sock, wrote, result, nread,
                   nyield, hdr, cur, idle, stalled, stopAt, overlap,
                   stopTries, readAfterStop, fileVars, callVars, lastHb,
                   depth, owner, superseded>>

\* the loop is left and no stop command is sent
stream_loop_no_stop(s) ==
    /\ pc[s] = "send_stop"
    /\ kind[s] # "file"
    /\ pc' = [pc EXCEPT ![s] = "cas_end"]
    /\ UNCHANGED <<streaming, lasttime, now, kind, sock, wrote, exit, result,
                   nread, nyield, hdr, cur, idle, stalled, stopAt, overlap,
                   stopTries, readAfterStop, fileVars, callVars, lastHb,
                   depth, owner, superseded>>

\* lines 382-383: the stop command of a video or replay stream is sent.
stream_loop_stop(s) ==
    /\ pc[s] = "send_stop"
    /\ kind[s] # "file"
    /\ stopTries' = [stopTries EXCEPT ![s] = @ + 1]
    /\ wrote' = [wrote EXCEPT ![s] = Append(@, STOP_CMDTYPE(kind[s]))]
    /\ pc' = [pc EXCEPT ![s] = "cas_end"]
    /\ UNCHANGED <<streaming, lasttime, now, kind, sock, exit, result, nread,
                   nyield, hdr, cur, idle, stalled, stopAt, overlap,
                   readAfterStop, fileVars, callVars, lastHb,
                   depth, owner, superseded>>

\* line 383: sendall(stop_cmd) raises IOError, caught at line 384.
stream_loop_stop_fail(s) ==
    /\ pc[s] = "send_stop"
    /\ kind[s] # "file"
    /\ stopTries' = [stopTries EXCEPT ![s] = @ + 1]
    /\ pc' = [pc EXCEPT ![s] = "cas_end"]
    /\ UNCHANGED <<streaming, lasttime, now, kind, sock, wrote, exit, result,
                   nread, nyield, hdr, cur, idle, stalled, stopAt,
                   overlap, readAfterStop, fileVars, callVars, lastHb,
                   depth, owner, superseded>>

\* line 382 with frame_cls = FileFrame: the class has no STOP_CMDTYPE, the
\* attribute lookup raises AttributeError.
stream_loop_stop_file(s) ==
    /\ pc[s] = "send_stop"
    /\ kind[s] = "file"
    /\ Raise(s, "AttributeError")
    /\ UNCHANGED <<streaming, lasttime, now, kind, wrote, exit, nread, nyield,
                   hdr, cur, idle, stalled, stopAt, overlap, stopTries,
                   readAfterStop, fileVars, callVars, lastHb,
                   depth, owner, superseded>>

\* line 387 and the end of the with block: the flag is reset, the socket is
\* closed and the generator is exhausted. get_file goes on at line 106.
stream_loop_end(s) ==
    /\ pc[s] = "cas_end"
    /\ streaming' = compare_and_set_streaming(TRUE, FALSE)
    /\ owner' = IF cas_ok(TRUE) THEN 0 ELSE owner
    /\ sock' = [sock EXCEPT ![s] = "closed"]
    /\ IF kind[s] = "file"
         THEN /\ pc' = [pc EXCEPT ![s] = "gf_cas"]
              /\ UNCHANGED result
         ELSE /\ pc' = [pc EXCEPT ![s] = "done"]
              /\ result' = [result EXCEPT ![s] = "returned"]
    /\ UNCHANGED <<lasttime, now, kind, wrote, exit, nread, nyield, hdr, cur,
                   idle, stalled, stopAt, overlap, stopTries,
                   readAfterStop, fileVars, callVars, lastHb,
                   depth, superseded>>

\* ------------------------------------------- the consumer of a generator
\* The consumer of a video or replay generator asks for the next frame.
next_frame(s) ==
    /\ pc[s] = "yielded"
    /\ kind[s] # "file"
    /\ pc' = [pc EXCEPT ![s] = "hb"]
    /\ cur' = [cur EXCEPT ![s] = NoFrame]
    /\ UNCHANGED <<streaming, lasttime, now, kind, sock, wrote, exit, result,
                   nread, nyield, hdr, idle, stalled, stopAt,
                   overlap, stopTries, readAfterStop, fileVars, callVars, lastHb,
                   depth, owner, superseded>>

\* The consumer leaves its loop, or raises, and the generator is closed:
\* GeneratorExit is raised at the yield of line 377. It is no IOError, so
\* only the with block acts: the socket is closed, line 387 is skipped.
generator_close(s) ==
    /\ pc[s] = "yielded"
    /\ kind[s] # "file"
    /\ Raise(s, "closed")
    /\ UNCHANGED <<streaming, lasttime, now, kind, wrote, exit, nread, nyield,
                   hdr, cur, idle, stalled, stopAt, overlap, stopTries,
                   readAfterStop, fileVars, callVars, lastHb,
                   depth, owner, superseded>>

\* ---------------------------------------------------------------- get_file
\* The tests of lines 94, 96, 99 and 102 on a frame fr with the local
\* `started` being st.
is_start(fr, st) == fr.flag = "start" /\ ~st
is_frame(fr, st) == fr.flag = "frame" /\ st
is_end(fr, st) == fr.flag = "end" /\ st
is_notfound(fr) == fr.flag = "notfound"

\* The body of the for loop of get_file, lines 94-105, for the frame the
\* generator has just yielded. Leaving the loop by break or by an exception
\* drops the generator, which closes its socket. The generator of a download
\* never yields (line 377 raises first), so that no specification takes
\* this step.
get_file_body(s) ==
    /\ pc[s] = "yielded"
    /\ kind[s] = "file"
    /\ UNCHANGED rx
    /\ CASE is_start(cur[s], started[s]) ->
              /\ started' = [started EXCEPT ![s] = TRUE]
              /\ pc' = [pc EXCEPT ![s] = "hb"]
              /\ UNCHANGED <<sink, md5, rmd5, result, sock>>
         [] is_frame(cur[s], started[s]) ->
              /\ sink' = [sink EXCEPT ![s] = @ \o cur[s].payload]
              /\ md5' = [md5 EXCEPT ![s] = md5_update(@, cur[s].payload)]
              /\ pc' = [pc EXCEPT ![s] = "hb"]
              /\ UNCHANGED <<started, rmd5, result, sock>>
         [] is_end(cur[s], started[s]) ->
              /\ rmd5' = [rmd5 EXCEPT ![s] = cur[s].md5]
              /\ pc' = [pc EXCEPT ![s] = "gf_cas"]
              /\ sock' = [sock EXCEPT ![s] = "closed"]
              /\ UNCHANGED <<started, sink, md5, result>>
         [] is_notfound(cur[s]) ->
              /\ Raise(s, "FileNotFoundError")
              /\ UNCHANGED <<started, sink, md5, rmd5>>
         [] OTHER ->
              /\ Raise(s, "ValueError")
              /\ UNCHANGED <<started, sink, md5, rmd5>>
    /\ cur' = [cur EXCEPT ![s] = NoFrame]
    /\ UNCHANGED <<streaming, lasttime, now, kind, wrote, exit, nread, nyield,
                   hdr, idle, stalled, stopAt, overlap, stopTries,
                   readAfterStop, callVars, lastHb,
                   depth, owner, superseded>>

\* The comparison of line 107: the strings must be equal.
md5_matches(h, r) == hexdigest(h) = r

\* lines 106-109: the flag is reset and the digests are compared.
get_file_return(s) ==
    /\ pc[s] = "gf_cas"
    /\ streaming' = compare_and_set_streaming(TRUE, FALSE)
    /\ owner' = IF cas_ok(TRUE) THEN 0 ELSE owner
    /\ result' = [result EXCEPT ![s] =
                     IF md5_matches(md5[s], rmd5[s]) THEN "True" ELSE "False"]
    /\ pc' = [pc EXCEPT ![s] = "done"]
    /\ UNCHANGED <<lasttime, now, kind, sock, wrote, exit, nread, nyield, hdr,
                   cur, idle, stalled, stopAt, overlap, stopTries,
                   readAfterStop, fileVars, callVars, lastHb,
                   depth, superseded>>

\* ------------------------------------------------------- the environment
\* A second passes on the client's clock. A recv that waits on a device gone
\* silent has waited a second longer, and does not outlast the socket's
\* timeout; on a device that still sends, the bytes come at any time.
Waiting(s) == pc[s] \in {"recv_hdr", "recv_body"} /\ stalled[s]
tick(limit) ==
    /\ now < limit
    /\ \A s \in Sessions : Waiting(s) => idle[s] < CONNECT_TIMEOUT
    /\ now' = now + 1
    /\ idle' = [s \in Sessions |-> IF Waiting(s) THEN idle[s] + 1 ELSE idle[s]]
    /\ UNCHANGED <<streaming, lasttime, pc, kind, sock, wrote, exit, result,
                   nread, nyield, hdr, cur, stalled, stopAt,
                   overlap, stopTries, readAfterStop, fileVars, callVars, lastHb,
                   depth, owner, superseded>>

\* The device stops sending on the connection and keeps it open.
device_stall(s) ==
    /\ sock[s] = "open"
    /\ ~stalled[s]
    /\ stalled' = [stalled EXCEPT ![s] = TRUE]
    /\ idle' = [idle EXCEPT ![s] = 0]
    /\ UNCHANGED <<streaming, lasttime, now, pc, kind, sock, wrote, exit,
                   result, nread, nyield, hdr, cur, stopAt,
                   overlap, stopTries, readAfterStop, fileVars, callVars, lastHb,
                   depth, owner, superseded>>

\* Another caller's compare-and-set acquires the stream (lines 91, 307,
\* 316, seen from the session under study).
other_acquire ==
    /\ ~streaming
    /\ streaming' = compare_and_set_streaming(FALSE, TRUE)
    /\ owner' = 0
    /\ UNCHANGED <<lasttime, now, pc, kind, sock, wrote, exit, result, nread,
                   nyield, hdr, cur, idle, stalled, stopAt, overlap,
                   stopTries, readAfterStop, fileVars, callVars, lastHb,
                   depth, superseded>>

\* -------------------------------------- the single-shot operations, steps
Idle == apc \in {"idle", "done"}

\* A call begins: what every operation below does to the record of the call.
Begin(o, a) ==
    /\ Idle
    /\ op' = o
    /\ arg' = a
    /\ conns' = 0
    /\ cmdsock' = "none"
    /\ sent' = <<>>
    /\ rcmd' = NoCommand
    /\ config' = NoConfig

\* The argument check failed: ValueError, nothing else done.
Reject ==
    /\ apc' = "done"
    /\ ret' = "ValueError"
    /\ cmd' = NoCommand

\* The Command is built and handed to _send_cmd.
Call(c) ==
    /\ apc' = "connect"
    /\ ret' = "none"
    /\ cmd' = c

valid_channel(chan) == 1 <= chan /\ chan <= 13
valid_name(name) == Len(encode(name)) <= MAX_WIFI_NAME_LEN
valid_password(passwd) == Len(encode(passwd)) <= MAX_WIFI_PASS_LEN
valid_duration(t) == 60 <= t /\ t <= 600
valid_count(n) == 0 <= n /\ n <= 512

\* lines 261-266.
set_wifi_channel(chan) ==
    /\ Begin("set_wifi_channel", [NoArgs EXCEPT !.num = chan])
    /\ IF ~valid_channel(chan)
         THEN Reject
         ELSE Call(Command("setwifichan", chan, Bytes(0)))
    /\ UNCHANGED <<streamVars, fileVars, codecVars, pureVars, cliVars, wireVars>>

\* lines 276-281.
set_wifi_name(name) ==
    /\ Begin("set_wifi_name", [NoArgs EXCEPT !.str = name])
    /\ IF ~valid_name(name)
         THEN Reject
         ELSE Call(Command("setwifiname", 0, Bytes(Len(encode(name)))))
    /\ UNCHANGED <<streamVars, fileVars, codecVars, pureVars, cliVars, wireVars>>

\* lines 285-292: the body is one dummy byte and the password in 64 bytes.
set_wifi_password(password) ==
    /\ Begin("set_wifi_password", [NoArgs EXCEPT !.str = password])
    /\ IF ~valid_password(password)
         THEN Reject
         ELSE Call(Command("setwifipass", 0, Bytes(65)))
    /\ UNCHANGED <<streamVars, fileVars, codecVars, pureVars, cliVars, wireVars>>

\* lines 235-241.
set_recording_rotate_duration(t) ==
    /\ Begin("set_recording_rotate_duration", [NoArgs EXCEPT !.num = t])
    /\ IF ~valid_duration(t)
         THEN Reject
         ELSE Call(Command("setrectime", t \div 60, Bytes(0)))
    /\ UNCHANGED <<streamVars, fileVars, codecVars, pureVars, cliVars, wireVars>>

\* lines 164-171.
list_pictures2(n) ==
    /\ Begin("list_pictures2", [NoArgs EXCEPT !.num = n])
    /\ IF ~valid_count(n)
         THEN Reject
         ELSE Call(Command("getpiclist2", n, Bytes(0)))
    /\ UNCHANGED <<streamVars, fileVars, codecVars, pureVars, cliVars, wireVars>>

\* lines 204-208 and 110-112: set_config starts with get_config().
set_config(a) ==
    /\ Begin("set_config", a)
    /\ Call(Command("getconfig", 0, Bytes(0)))
    /\ UNCHANGED <<streamVars, fileVars, codecVars, pureVars, cliVars, wireVars>>

\* _send_cmd line 353: create_connection succeeds.
send_cmd_connect ==
    /\ apc = "connect"
    /\ conns' = conns + 1
    /\ cmdsock' = "open"
    /\ apc' = "send"
    /\ UNCHANGED <<op, arg, cmd, sent, rcmd, config, ret, streamVars, fileVars,
                   codecVars, pureVars, cliVars, wireVars>>

\* _send_cmd line 353: create_connection raises.
send_cmd_connect_fail ==
    /\ apc = "connect"
    /\ conns' = conns + 1
    /\ apc' = "done"
    /\ ret' = "ConnectError"
    /\ UNCHANGED <<op, arg, cmd, cmdsock, sent, rcmd, config, streamVars,
                   fileVars, codecVars, pureVars, cliVars, wireVars>>

\* _send_cmd lines 354-355: the encoded request is written.
send_cmd_sendall ==
    /\ apc = "send"
    /\ sent' = Append(sent, cmd)
    /\ apc' = "recv"
    /\ UNCHANGED <<op, arg, cmd, conns, cmdsock, rcmd, config, ret, streamVars,
                   fileVars, codecVars, pureVars, cliVars, wireVars>>

\* _send_cmd lines 355, 356, 358: sendall or _recvall raises IOError; the
\* with block closes the socket.
send_cmd_ioerror ==
    /\ apc \in {"send", "recv"}
    /\ cmdsock' = "closed"
    /\ apc' = "done"
    /\ ret' = "IOError"
    /\ UNCHANGED <<op, arg, cmd, conns, sent, rcmd, config, streamVars,
                   fileVars, codecVars, pureVars, cliVars, wireVars>>

\* _send_cmd line 357: the header received does not decode.
send_cmd_invalid ==
    /\ apc = "recv"
    /\ cmdsock' = "closed"
    /\ apc' = "done"
    /\ ret' = "ValueError"
    /\ UNCHANGED <<op, arg, cmd, conns, sent, rcmd, config, streamVars,
                   fileVars, codecVars, pureVars, cliVars, wireVars>>

\* What the camera answers: its configuration, or a body of another length,
\* to getconfig; a status in arg slot 1 to the other commands.
DeviceConfig == [len |-> 140, wifi_chan |-> 6, flip |-> "up",
                 wifi_sec |-> "open", wifi_name |-> <<"a", "a">>,
                 wifi_pass_ |-> <<>>, wifi_pass |-> None]
Replies(t) ==
    IF t = "getconfig"
      THEN {Command(t, 0, b) : b \in {DeviceConfig, Bytes(0)}}
      ELSE {Command(t, a, Bytes(0)) : a \in {0, 1}}
CommandTypes == {"setwifichan", "setwifiname", "setwifipass", "setrectime",
                 "getpiclist2", "getconfig", "setconfig"}
AllReplies == UNION {Replies(t) : t \in CommandTypes}

\* _send_cmd lines 356-360: header and body of the response r are read, the
\* socket is closed and the response is returned to the operation.
send_cmd_recv(r) ==
    /\ apc = "recv"
    /\ r \in Replies(cmd.type)
    /\ rcmd' = r
    /\ cmdsock' = "closed"
    /\ apc' = "reply"
    /\ UNCHANGED <<op, arg, cmd, conns, sent, config, ret, streamVars,
                   fileVars, codecVars, pureVars, cliVars, wireVars>>

\* Config.from_bytes, responses.py lines 128-130.
valid_config(b) == b.len = 140
\* Config.to_bytes, responses.py lines 115-123: the fields it packs.
to_bytes(c) == [c EXCEPT !.len = 140, !.wifi_pass = None]

\* `if wifi_chan:` on an optional int.
Truthy(o) == o # None /\ Val(o) # 0

\* set_config lines 208-223, from the return of get_config's _send_cmd: the
\* arguments given are stored on the Config, which is then packed and
\* handed to _send_cmd.
set_config_apply ==
    /\ apc = "reply"
    /\ cmd.type = "getconfig"
    /\ LET a == arg
           c0 == rcmd.body
           bad_chan == Truthy(a.wifi_chan) /\ ~valid_channel(Val(a.wifi_chan))
           c1 == IF Truthy(a.wifi_chan)
                   THEN [c0 EXCEPT !.wifi_chan = Val(a.wifi_chan)]
                   ELSE c0
           bad_name == a.wifi_name # None /\ ~valid_name(Val(a.wifi_name))
           c2 == IF a.wifi_name # None
                   THEN [c1 EXCEPT !.wifi_name = Val(a.wifi_name)]
                   ELSE c1
           c3 == IF a.wifi_pass # None
                   THEN [c2 EXCEPT !.wifi_pass = a.wifi_pass,
                                   !.wifi_sec = "wpa2_psk"]
                   ELSE c2
           sec_alone == a.wifi_sec # None /\ a.wifi_pass = None
           bad_sec == sec_alone /\ Val(a.wifi_sec) # "open"
           c4 == IF sec_alone
                   THEN [c3 EXCEPT !.wifi_sec = Val(a.wifi_sec)]
                   ELSE c3
           c5 == IF a.camflip # None
                   THEN [c4 EXCEPT !.flip = Val(a.camflip)]
                   ELSE c4
       IN  IF ~valid_config(c0) \/ bad_chan \/ bad_name \/ bad_sec
             THEN /\ Reject
                  /\ UNCHANGED config
             ELSE /\ config' = c5
                  /\ Call(Command("setconfig", 0, to_bytes(c5)))
    /\ UNCHANGED <<op, arg, conns, cmdsock, sent, rcmd, streamVars, fileVars,
                   codecVars, pureVars, cliVars, wireVars>>

\* The last line of each operation: the response's arg slot 1 decides.
api_return ==
    /\ apc = "reply"
    /\ cmd.type # "getconfig"
    /\ apc' = "done"
    /\ ret' = IF op = "list_pictures2"
                THEN (IF rcmd.arg1 # 0 THEN "None" ELSE "list")
                ELSE (IF rcmd.arg1 = 0 THEN "True" ELSE "False")
    /\ UNCHANGED <<op, arg, cmd, conns, cmdsock, sent, rcmd, config,
                   streamVars, fileVars, codecVars, pureVars, cliVars, wireVars>>

\* ------------------------------------------------ the Command codec, steps
\* Command(cmdtype, body)
new_command(cmdtype, body) ==
    /\ cpc \in {"none", "decoded", "header", "failed"}
    /\ cobj' = Command_init(cmdtype, body)
    /\ cpc' = "built"
    /\ nset' = 0
    /\ buf' = <<>>
    /\ damaged' = FALSE
    /\ dec' = NoDecoded
    /\ UNCHANGED <<streamVars, fileVars, apiVars, pureVars, cliVars, wireVars>>

\* Command.set_arg(i, arg), lines 103-107.
set_arg(i, a) ==
    /\ cpc = "built"
    /\ nset < MaxSetArgs
    /\ nset' = nset + 1
    /\ cobj' = [cobj EXCEPT !.args[i + 1] = a]
    /\ UNCHANGED <<cpc, buf, damaged, dec, streamVars, fileVars, apiVars, pureVars, cliVars, wireVars>>

\* The body setter, lines 86-91.
set_body(data) ==
    /\ cpc = "built"
    /\ nset < MaxSetArgs
    /\ nset' = nset + 1
    /\ cobj' = [cobj EXCEPT !.body = data,
                            !.args[HDR_ARG_BODYSZ + 1] = PyInt(Len(data))]
    /\ UNCHANGED <<cpc, buf, damaged, dec, streamVars, fileVars, apiVars, pureVars, cliVars, wireVars>>

\* cmd.to_bytes(), and the bytes are put on the wire.
to_bytes_call ==
    /\ cpc = "built"
    /\ IF CanPack(cobj)
         THEN /\ buf' = Command_to_bytes(cobj)
              /\ cpc' = "encoded"
         ELSE /\ buf' = <<>>
              /\ cpc' = "failed"
    /\ UNCHANGED <<cobj, nset, damaged, dec, streamVars, fileVars, apiVars, pureVars, cliVars, wireVars>>

\* The bytes are cut short of a header or lost altogether, or the first or
\* the last byte of the magic is changed, or the cmdtype field is changed to
\* 7 or has 65536 added to it, before they are read.
Damage(b, k) ==
    CASE k = "short" -> SubSeq(b, 1, HDR_LEN - 1)
      [] k = "empty" -> <<>>
      [] k = "magic" -> [b EXCEPT ![1] = 76]
      [] k = "magic_end" -> [b EXCEPT ![HDR_MAGIC_LEN] = 1]
      [] k = "type_high" -> [b EXCEPT ![HDR_INTS_OFF + 3] = 1]
      [] OTHER -> [b EXCEPT ![HDR_INTS_OFF + 1] = 7, ![HDR_INTS_OFF + 2] = 0]
wire_damage(k) ==
    /\ cpc = "encoded"
    /\ ~damaged
    /\ buf' = Damage(buf, k)
    /\ damaged' = TRUE
    /\ UNCHANGED <<cobj, cpc, nset, dec, streamVars, fileVars, apiVars, pureVars, cliVars, wireVars>>

\* Command.from_bytes(buf)
from_bytes_call ==
    /\ cpc = "encoded"
    /\ dec' = Command_from_bytes(buf)
    /\ cpc' = "decoded"
    /\ UNCHANGED <<cobj, nset, buf, damaged, streamVars, fileVars, apiVars, pureVars, cliVars, wireVars>>

\* Command.from_bytes(hdr_bytes) as _send_cmd (lwdrone.py lines 356-357) and
\* _get_frame (lines 390-391) call it: on the first HDR_LEN bytes received.
from_bytes_header ==
    /\ cpc = "encoded"
    /\ Len(buf) >= HDR_LEN
    /\ dec' = Command_from_bytes(SubSeq(buf, 1, HDR_LEN))
    /\ cpc' = "header"
    /\ UNCHANGED <<cobj, nset, buf, damaged, streamVars, fileVars, apiVars, pureVars, cliVars, wireVars>>

\* ------------------------------------------------ functions of responses.py
\* VideoFrameUnmunger.unmunge, type 1: idx = self._fix_byte(count, size)
fix_byte_call(count, size) ==
    /\ fn = "none"
    /\ fn' = "fix_byte"
    /\ inp' = <<count, size>>
    /\ out' = fix_byte(count, size)
    /\ UNCHANGED <<streamVars, fileVars, apiVars, codecVars, cliVars, wireVars>>

\* VideoFrame._get_frame_bytes(VideoFrameUnmunger(stream_type, key1, key2),
\* data, len(data), count), as VideoFrame.from_bytes calls it at line 549.
get_frame_bytes_call(stream_type, key1, key2, data, count) ==
    /\ fn = "none"
    /\ fn' = "unmunge"
    /\ inp' = [type |-> stream_type, key1 |-> key1, key2 |-> key2,
                data |-> data, count |-> count]
    /\ out' = get_frame_bytes(VideoFrameUnmunger(stream_type, key1, key2),
                              data, Len(data), count)
    /\ UNCHANGED <<streamVars, fileVars, apiVars, codecVars, cliVars, wireVars>>

\* RecordPlan(active, active_days, start_time, end_time, max_duration_mins)
RecordPlan_new(a, today) ==
    /\ fn = "none"
    /\ RecordPlan_valid(a[3], a[4])
    /\ fn' = "RecordPlan"
    /\ inp' = a
    /\ out' = RecordPlan(a[1], a[2], a[3], a[4], a[5], today)
    /\ UNCHANGED <<streamVars, fileVars, apiVars, codecVars, cliVars, wireVars>>

\* r.to_bytes() on the plan just made
RecordPlan_to_bytes_call ==
    /\ fn = "RecordPlan"
    /\ fn' = "to_bytes"
    /\ inp' = out
    /\ out' = RecordPlan_to_bytes(out)
    /\ UNCHANGED <<streamVars, fileVars, apiVars, codecVars, cliVars, wireVars>>

\* RecordPlan.from_bytes on those bytes; inp keeps the plan they came from
RecordPlan_from_bytes_call(today) ==
    /\ fn = "to_bytes"
    /\ fn' = "from_bytes"
    /\ inp' = <<inp, out>>
    /\ out' = RecordPlan_from_bytes(out, today)
    /\ UNCHANGED <<streamVars, fileVars, apiVars, codecVars, cliVars, wireVars>>

\* get_record_plan: RecordPlan.from_bytes(rcmd.body) on a body of the device
RecordPlan_from_wire(data, today) ==
    /\ fn = "none"
    /\ fn' = "from_bytes"
    /\ inp' = <<NoPlan, data>>
    /\ out' = RecordPlan_from_bytes(data, today)
    /\ UNCHANGED <<streamVars, fileVars, apiVars, codecVars, cliVars, wireVars>>

\* get_heartbeat: Heartbeat.from_bytes(rcmd.body)
Heartbeat_from_bytes_call(data) ==
    /\ fn = "none"
    /\ fn' = "Heartbeat.from_bytes"
    /\ inp' = data
    /\ out' = Heartbeat_from_bytes(data)
    /\ UNCHANGED <<streamVars, fileVars, apiVars, codecVars, cliVars, wireVars>>

\* list_recordings: list(RecordListItem.iter_from_bytes(rcmd.body))
iter_from_bytes_call(data) ==
    /\ fn = "none"
    /\ fn' = "RecordListItem.iter_from_bytes"
    /\ inp' = data
    /\ out' = iter_from_bytes(data)
    /\ UNCHANGED <<streamVars, fileVars, apiVars, codecVars, cliVars, wireVars>>

\* ------------------------------------------------ the command line, steps
\* main lines 19-25: the arguments are parsed and args.func is called;
\* without a subcommand main returns 1.
cli_main(sub, out_file, quiet) ==
    /\ cli.pc = "start"
    /\ cli' = IF sub = "none"
                THEN [cli EXCEPT !.pc = "done", !.quiet = quiet, !.code = 1]
                ELSE [cli EXCEPT !.pc = "func", !.sub = sub,
                                 !.out_file = out_file, !.quiet = quiet]
    /\ UNCHANGED <<streamVars, fileVars, apiVars, codecVars, pureVars,
                   wireVars>>

\* a subcommand that streams nothing returns its result
cli_func_return(r) ==
    /\ cli.pc = "func"
    /\ ~HasStopFunc(cli.sub)
    /\ cli' = [cli EXCEPT !.pc = "ret", !.ret = r]
    /\ UNCHANGED <<streamVars, fileVars, apiVars, codecVars, pureVars,
                   wireVars>>

\* _cmd_stream_start lines 416-418, _cmd_record_play alike: the with body
\* is entered with the file of fopen
cli_with ==
    /\ cli.pc = "func"
    /\ HasStopFunc(cli.sub)
    /\ cli' = [cli EXCEPT !.pc = "next", !.fp = fopen(cli.out_file)]
    /\ UNCHANGED <<streamVars, fileVars, apiVars, codecVars, pureVars,
                   wireVars>>

\* KeyboardInterrupt in args.func before the with body: it reaches main
cli_interrupt_before ==
    /\ cli.pc = "func"
    /\ cli' = [cli EXCEPT !.pc = "except", !.interrupt = "before"]
    /\ UNCHANGED <<streamVars, fileVars, apiVars, codecVars, pureVars,
                   wireVars>>

\* the for loop asks the generator for a frame: the stream is started by
\* _compare_and_set_streaming(False, True) and a frame is yielded
cli_next_frame ==
    /\ cli.pc = "next"
    /\ cli.written < MaxFrames
    /\ cli' = [cli EXCEPT !.pc = "write", !.streaming = TRUE]
    /\ UNCHANGED <<streamVars, fileVars, apiVars, codecVars, pureVars,
                   wireVars>>

\* fp.write(frame.frame_bytes)
cli_write ==
    /\ cli.pc = "write"
    /\ cli' = [cli EXCEPT !.pc = "next", !.written = @ + 1]
    /\ UNCHANGED <<streamVars, fileVars, apiVars, codecVars, pureVars,
                   wireVars>>

\* the stream ends: _stream_loop clears _streaming, the with body is left
\* and the subcommand returns True
cli_stream_end ==
    /\ cli.pc = "next"
    /\ cli' = [cli EXCEPT !.pc = "ret", !.streaming = FALSE, !.ret = TRUE]
    /\ UNCHANGED <<streamVars, fileVars, apiVars, codecVars, pureVars,
                   wireVars>>

\* KeyboardInterrupt while streaming, in the generator (where) or in
\* fp.write: it is not an IOError, so _stream_loop lets it pass without
\* clearing _streaming; fopen catches it at its yield and returns, so the
\* with statement suppresses it and the subcommand goes on to `return True`
cli_interrupt_streaming ==
    /\ cli.pc \in {"next", "write"}
    /\ cli' = [cli EXCEPT !.pc = "ret", !.interrupt = "streaming",
                          !.fp = fopen_except(cli.fp), !.ret = TRUE]
    /\ UNCHANGED <<streamVars, fileVars, apiVars, codecVars, pureVars,
                   wireVars>>

\* main lines 26-29: ret = False, and the stop hook when there is one:
\* stop_video_stream / stop_recording_replay, lines 321-327 of lwdrone.py
cli_except ==
    /\ cli.pc = "except"
    /\ cli' = IF HasStopFunc(cli.sub)
                THEN [cli EXCEPT !.pc = "ret", !.hook = IF cli.streaming THEN "True" ELSE "False",
                                 !.ret = cli.streaming, !.streaming = FALSE]
                ELSE [cli EXCEPT !.pc = "ret", !.ret = FALSE]
    /\ UNCHANGED <<streamVars, fileVars, apiVars, codecVars, pureVars,
                   wireVars>>

\* main lines 30-37
cli_exit ==
    /\ cli.pc = "ret"
    /\ cli' = [cli EXCEPT !.pc = "done", !.code = IF cli.ret THEN 0 ELSE 1]
    /\ UNCHANGED <<streamVars, fileVars, apiVars, codecVars, pureVars,
                   wireVars>>

\* the next run of the command line
cli_again ==
    /\ cli.pc = "done"
    /\ cli' = NoRun
    /\ UNCHANGED <<streamVars, fileVars, apiVars, codecVars, pureVars,
                   wireVars>>

\* -------------------------------------------------------- specifications
HeaderTypes == {"frame", "heartbeat", "retreplayend", "empty"}

\* The file frames the device sends in the stream specification.
PlainFileFrames ==
    {[flag |-> fl, payload |-> <<>>, md5 |-> IF fl = "end" THEN "0" ELSE ""] :
        fl \in FileFrameFlag}

\* The file frames the device sends in the download specification: the md5
\* field is filled on end frames only.
Payloads == {<<>>, <<3>>, <<10>>}
Md5Fields == {"0", "3", "6", "a", "A", "d", "D"}
FileFrames ==
    {[flag |-> fl, payload |-> p, md5 |-> ""] :
        fl \in FileFrameFlag \ {"end"}, p \in Payloads}
    \cup {[flag |-> "end", payload |-> <<>>, md5 |-> m] : m \in Md5Fields}

FramesOf(k) == IF k = "file" THEN PlainFileFrames ELSE {VideoFrame}

\* Every interleaving of NumSessions calls on one LWDrone instance.
Next ==
    \/ \E s \in Sessions :
          \/ start_video_stream(s)
          \/ start_recording_replay(s)
          \/ start_recording_replay_noindex(s)
          \/ get_file(s)
          \/ stream_loop_connect(s)
          \/ stream_loop_connect_fail(s)
          \/ stream_loop_send(s)
          \/ stream_loop_send_fail(s)
          \/ stream_loop_while(s)
          \/ \E t \in HeaderTypes : get_frame_header(s, t, MaxFrames)
          \/ get_frame_header_invalid(s, MaxFrames)
          \/ recvall_fail(s)
          \/ \E f \in FramesOf(kind[s]) : get_frame_body(s, f)
          \/ get_frame_body_invalid(s)
          \/ stream_loop_heartbeat(s)
          \/ stream_loop_heartbeat_fail(s)
          \/ stream_loop_end(s)
          \/ stream_loop_stop(s)
          \/ stream_loop_stop_fail(s)
          \/ next_frame(s)
          \/ generator_close(s)
          \/ stream_loop_stop_file(s)
          \/ get_file_return(s)
    \/ stop_video_stream
    \/ stop_recording_replay
    \/ tick(ClockMax)

Spec == Init /\ [][Next]_vars

\* One video or replay session on a clock that runs past the socket timeout,
\* a device that may fall silent, and the other callers of the instance seen
\* through what they do to _streaming.
One == CHOOSE s \in Sessions : \A t \in Sessions : s <= t

NextTimed ==
    \/ start_video_stream(One)
    \/ start_recording_replay(One)
    \/ start_recording_replay_noindex(One)
    \/ stream_loop_connect(One)
    \/ stream_loop_connect_fail(One)
    \/ stream_loop_send(One)
    \/ stream_loop_send_fail(One)
    \/ stream_loop_while(One)
    \/ \E t \in HeaderTypes : get_frame_header(One, t, MaxFrames)
    \/ get_frame_header_invalid(One, MaxFrames)
    \/ recvall_fail(One)
    \/ recvall_timeout(One)
    \/ get_frame_body(One, VideoFrame)
    \/ get_frame_body_invalid(One)
    \/ stream_loop_heartbeat(One)
    \/ stream_loop_heartbeat_fail(One)
    \/ stream_loop_end(One)
    \/ stream_loop_stop(One)
    \/ stream_loop_stop_fail(One)
    \/ next_frame(One)
    \/ generator_close(One)
    \/ device_stall(One)
    \/ stop_video_stream
    \/ stop_recording_replay
    \/ other_acquire
    \/ tick(TimedClockMax)

SpecTimed == Init /\ [][NextTimed]_vars

\* One live video stream on which the device, after at most MaxFrames
\* headers of any type, sends heartbeat responses only.
NextHeartbeats ==
    \/ start_video_stream(One)
    \/ stream_loop_connect(One)
    \/ stream_loop_send(One)
    \/ stream_loop_while(One)
    \/ \E t \in HeaderTypes :
          /\ t = "heartbeat" \/ nread[One] < MaxFrames
          /\ get_frame_header(One, t, MaxFrames + RecursionLimit)
    \/ recvall_fail(One)
    \/ get_frame_body(One, VideoFrame)
    \/ stream_loop_heartbeat(One)
    \/ stream_loop_end(One)
    \/ stream_loop_stop(One)
    \/ next_frame(One)
    \/ stop_video_stream

SpecHeartbeats == Init /\ [][NextHeartbeats]_vars

\* One file download, with the other callers seen the same way.
NextFile ==
    \/ get_file(One)
    \/ stream_loop_connect(One)
    \/ stream_loop_connect_fail(One)
    \/ stream_loop_send(One)
    \/ stream_loop_send_fail(One)
    \/ stream_loop_while(One)
    \/ \E t \in HeaderTypes : get_frame_header(One, t, MaxFileFrames)
    \/ get_frame_header_invalid(One, MaxFileFrames)
    \/ recvall_fail(One)
    \/ \E f \in FileFrames : get_frame_body(One, f)
    \/ stream_loop_end(One)
    \/ stream_loop_stop_file(One)
    \/ get_file_return(One)
    \/ stop_video_stream
    \/ stop_recording_replay
    \/ other_acquire
    \/ tick(ClockMax)

SpecFile == Init /\ [][NextFile]_vars

\* The arguments and the responses of the single-shot specification.
Rep(n) == [i \in 1..n |-> "a"]
Chans == {0, 1, 13, 14}
Strs == {<<"a">>, Rep(MAX_WIFI_NAME_LEN), Rep(MAX_WIFI_NAME_LEN + 1),
         Rep(MAX_WIFI_NAME_LEN - 1) \o <<"eacute">>}
Durations == {59, 60, 600, 601}
Counts == {-1, 0, 512, 513}
ConfigArgs ==
    {[NoArgs EXCEPT !.wifi_chan = c, !.wifi_name = n, !.wifi_pass = p,
                    !.wifi_sec = x, !.camflip = f] :
        c \in {None, Some(0), Some(13), Some(14)},
        n \in {None, Some(<<"a">>), Some(Rep(MAX_WIFI_NAME_LEN + 1))},
        p \in {None, Some(<<"a">>), Some(Rep(MAX_WIFI_PASS_LEN + 1))},
        x \in {None, Some("open"), Some("wpa2_psk")},
        f \in {None, Some("down")}}
\* One caller of the single-shot operations, one call after the other.
NextApi ==
    \/ \E chan \in Chans : set_wifi_channel(chan)
    \/ \E name \in Strs : set_wifi_name(name)
    \/ \E password \in Strs : set_wifi_password(password)
    \/ \E t \in Durations : set_recording_rotate_duration(t)
    \/ \E n \in Counts : list_pictures2(n)
    \/ \E a \in ConfigArgs : set_config(a)
    \/ send_cmd_connect
    \/ send_cmd_connect_fail
    \/ send_cmd_sendall
    \/ send_cmd_ioerror
    \/ send_cmd_invalid
    \/ \E r \in AllReplies : send_cmd_recv(r)
    \/ set_config_apply
    \/ api_return

SpecApi == Init /\ [][NextApi]_vars

\* Every way the library opens a connection: one stream operation at a
\* time (live video, replay, file download) with its consumer and the stop
\* calls, beside one caller of a single-shot operation.
NextSockets ==
    \/ start_video_stream(One)
    \/ start_recording_replay(One)
    \/ start_recording_replay_noindex(One)
    \/ get_file(One)
    \/ stream_loop_connect(One)
    \/ stream_loop_connect_fail(One)
    \/ stream_loop_send(One)
    \/ stream_loop_send_fail(One)
    \/ stream_loop_while(One)
    \/ \E t \in HeaderTypes : get_frame_header(One, t, MaxFrames)
    \/ get_frame_header_invalid(One, MaxFrames)
    \/ recvall_fail(One)
    \/ \E f \in FramesOf(kind[One]) : get_frame_body(One, f)
    \/ get_frame_body_invalid(One)
    \/ stream_loop_heartbeat(One)
    \/ stream_loop_heartbeat_fail(One)
    \/ stream_loop_end(One)
    \/ stream_loop_stop(One)
    \/ stream_loop_stop_fail(One)
    \/ next_frame(One)
    \/ generator_close(One)
    \/ stream_loop_stop_file(One)
    \/ get_file_return(One)
    \/ stop_video_stream
    \/ stop_recording_replay
    \/ \E chan \in Chans : set_wifi_channel(chan)
    \/ send_cmd_connect
    \/ send_cmd_connect_fail
    \/ send_cmd_sendall
    \/ send_cmd_ioerror
    \/ send_cmd_invalid
    \/ \E r \in AllReplies : send_cmd_recv(r)
    \/ api_return

SpecSockets == Init /\ [][NextSockets]_vars

\* ------------------------------------------- _send_cmd, read by read
\* The calls made on the command socket, as io_log records them.
Connect == [call |-> "create_connection", phase |-> "none", asked |-> 0,
            got |-> 0]
Sendall == [call |-> "sendall", phase |-> "none", asked |-> 0, got |-> 0]
Recv(phase, asked, got) ==
    [call |-> "recv", phase |-> phase, asked |-> asked, got |-> got]
Close == [call |-> "close", phase |-> "none", asked |-> 0, got |-> 0]

\* The body sizes the response header announces, the sizes of the pieces
\* the network delivers, and the most recv calls one _recvall needs.
BodySizes == {0, 1, 3}
Chunks == {1, 20}
MaxRecvs == 3

restVars == <<streamVars, fileVars, apiVars, codecVars, pureVars, cliVars>>

\* lwdrone.py line 353: create_connection succeeds.
wire_connect ==
    /\ io_pc = "idle"
    /\ io_log' = Append(io_log, Connect)
    /\ io_pc' = "sendall"
    /\ UNCHANGED <<recv_n, recv_tot, nrecv, hdr_len, body_size, body_len,
                   io_ret, restVars>>

\* line 353: create_connection raises; there is no socket to close.
wire_connect_fail ==
    /\ io_pc = "idle"
    /\ io_log' = Append(io_log, Connect)
    /\ io_pc' = "done"
    /\ io_ret' = "ConnectError"
    /\ UNCHANGED <<recv_n, recv_tot, nrecv, hdr_len, body_size, body_len,
                   restVars>>

\* lines 354-356: the request is encoded and written whole, and
\* _recvall(sock, Command.HDR_LEN) is entered with tot = 0 (line 404).
wire_sendall ==
    /\ io_pc = "sendall"
    /\ io_log' = Append(io_log, Sendall)
    /\ io_pc' = "hdr"
    /\ recv_n' = HDR_LEN
    /\ recv_tot' = 0
    /\ nrecv' = 0
    /\ UNCHANGED <<hdr_len, body_size, body_len, io_ret, restVars>>

\* line 355: sendall raises; the with block closes the socket.
wire_sendall_fail ==
    /\ io_pc = "sendall"
    /\ io_log' = io_log \o <<Sendall, Close>>
    /\ io_pc' = "done"
    /\ io_ret' = "IOError"
    /\ UNCHANGED <<recv_n, recv_tot, nrecv, hdr_len, body_size, body_len,
                   restVars>>

\* _recvall lines 405-410: s.recv(n - tot) returns k bytes, 0 < k <= n - tot.
recvall_recv(k) ==
    /\ io_pc \in {"hdr", "body"}
    /\ recv_tot < recv_n
    /\ k \in 1..(recv_n - recv_tot)
    /\ nrecv + 1 < MaxRecvs \/ k = recv_n - recv_tot
    /\ io_log' = Append(io_log, Recv(io_pc, recv_n - recv_tot, k))
    /\ recv_tot' = recv_tot + k
    /\ nrecv' = nrecv + 1
    /\ UNCHANGED <<io_pc, recv_n, hdr_len, body_size, body_len, io_ret,
                   restVars>>

\* The same lines with `if len(ret) != n: raise` left out: the short buffer
\* is returned.
recvall_eof_short ==
    /\ io_pc \in {"hdr", "body"}
    /\ recv_tot < recv_n
    /\ io_log' = Append(io_log, Recv(io_pc, recv_n - recv_tot, 0))
    /\ recv_n' = recv_tot
    /\ UNCHANGED <<io_pc, recv_tot, nrecv, hdr_len, body_size, body_len,
                   io_ret, restVars>>

\* _recvall lines 406-408 and 411-413: s.recv returns no data, the loop is
\* left, len(ret) != n and IOError is raised; the with block of _send_cmd
\* closes the socket.
recvall_eof ==
    /\ io_pc \in {"hdr", "body"}
    /\ recv_tot < recv_n
    /\ io_log' = io_log \o <<Recv(io_pc, recv_n - recv_tot, 0), Close>>
    /\ io_pc' = "done"
    /\ io_ret' = "IOError"
    /\ UNCHANGED <<recv_n, recv_tot, nrecv, hdr_len, body_size, body_len,
                   restVars>>

\* _recvall line 406: s.recv raises (timeout, reset), an IOError.
recvall_error ==
    /\ io_pc \in {"hdr", "body"}
    /\ recv_tot < recv_n
    /\ io_log' = io_log \o <<Recv(io_pc, recv_n - recv_tot, -1), Close>>
    /\ io_pc' = "done"
    /\ io_ret' = "IOError"
    /\ UNCHANGED <<recv_n, recv_tot, nrecv, hdr_len, body_size, body_len,
                   restVars>>

\* _recvall lines 405, 411-414: tot has reached n and the buffer is
\* returned, to line 356 (the header) or to lines 358-360 (the body; the
\* socket is closed and the response returned).
recvall_return ==
    /\ io_pc \in {"hdr", "body"}
    /\ recv_tot = recv_n
    /\ IF io_pc = "hdr"
         THEN /\ hdr_len' = recv_tot
              /\ io_pc' = "from_bytes"
              /\ UNCHANGED <<io_log, body_len, io_ret>>
         ELSE /\ body_len' = recv_tot
              /\ io_log' = Append(io_log, Close)
              /\ io_pc' = "done"
              /\ io_ret' = "returned"
              /\ UNCHANGED hdr_len
    /\ UNCHANGED <<recv_n, recv_tot, nrecv, body_size, restVars>>

\* lines 357-358: the header decodes and announces a body of b bytes;
\* _recvall(sock, b) is entered.
wire_from_bytes(b) ==
    /\ io_pc = "from_bytes"
    /\ body_size' = b
    /\ io_pc' = "body"
    /\ recv_n' = b
    /\ recv_tot' = 0
    /\ nrecv' = 0
    /\ UNCHANGED <<io_log, hdr_len, body_len, io_ret, restVars>>

\* line 357: Command.from_bytes raises (short header, magic, cmdtype).
wire_from_bytes_invalid ==
    /\ io_pc = "from_bytes"
    /\ io_log' = Append(io_log, Close)
    /\ io_pc' = "done"
    /\ io_ret' = IF hdr_len < HDR_LEN THEN "IOError" ELSE "ValueError"
    /\ UNCHANGED <<recv_n, recv_tot, nrecv, hdr_len, body_size, body_len,
                   restVars>>

\* One call of _send_cmd, every recv a step of its own.
NextWire ==
    \/ wire_connect
    \/ wire_connect_fail
    \/ wire_sendall
    \/ wire_sendall_fail
    \/ \E k \in Chunks \cup {recv_n - recv_tot} : recvall_recv(k)
    \/ recvall_eof
    \/ recvall_error
    \/ recvall_return
    \/ \E b \in BodySizes : wire_from_bytes(b)
    \/ wire_from_bytes_invalid

SpecWire == Init /\ [][NextWire]_vars

\* The commands of the codec specification.
CodecTypes == {"heartbeat", "setconfig", "retreplayend"}
Bodies == {<<>>, <<7>>, <<0, 255>>}
\* 0, 1, 256, 2^16 + 2, 2^32 - 1 and 2^32.
ArgValues == {PyInt(0), PyInt(1), PyInt(256), <<1, 2>>, <<65535, 65535>>,
              <<65536, 0>>}
DamageKinds == {"short", "empty", "magic", "magic_end", "type", "type_high"}

\* One Command: built, modified, encoded, decoded.
NextCodec ==
    \/ \E t \in CodecTypes, b \in Bodies : new_command(t, b)
    \/ \E i \in 0..(HDR_NUM_INTS - 2), a \in ArgValues : set_arg(i, a)
    \/ \E b \in Bodies : set_body(b)
    \/ to_bytes_call
    \/ \E k \in DamageKinds : wire_damage(k)
    \/ from_bytes_call
    \/ from_bytes_header

SpecCodec == Init /\ [][NextCodec]_vars

\* Frame counts are 64-bit on the wire (VideoFrame.from_bytes unpacks '<Q'):
\* a few leading digits at several magnitudes, and the all-ones words.
CountShifts == {0, 29, 32, 54, 61}
FrameCounts ==
    {int_shl(int_of(m), e) : m \in 0..MaxCount, e \in CountShifts}
        \cup {[i \in 1..w |-> 1] : w \in {32, 64}}
FrameSizes == {int_of(n) : n \in (0..MaxSize) \cup {100, 1000}}

Weekdays == 0..6
PlanArgs ==
    {None, Some(<<"bool", TRUE>>), Some(<<"bool", FALSE>>)}
        \X {None, Some(<<"int", 0>>), Some(<<"int", 5>>), Some(<<"int", 127>>),
            Some(<<"list", {"Sun", "Wed"}>>)}
        \X {None, Some(<<"int", 0>>), Some(<<"int", 3661>>), Some(<<"str", <<1, 30>>>>)}
        \X {None, Some(<<"int", 0>>), Some(<<"int", 86399>>), Some(<<"int", 86400>>),
            Some(<<"str", <<0, 0>>>>)}
        \X {None, Some(<<"int", 0>>), Some(<<"int", 1>>), Some(<<"int", 5>>)}
\* Bodies of a getrecplan response: of every length around 20, with the
\* fields of a plan, of a plan ending at midnight with no maximum duration,
\* and with a start time no day has.
WirePlans ==
    {pack_ints(<<PyInt(1), PyInt(5), PyInt(3661), PyInt(e), PyInt(m)>>) :
        e \in {0, 7200}, m \in {0, 300}}
        \cup {pack_ints(<<PyInt(1), PyInt(5), PyInt(86400), PyInt(0), PyInt(0)>>)}
        \cup {[i \in 1..n |-> 0] : n \in {0, 19, 21, 40}}

\* Device times: around the eight hours, a day of 2023, the ends of the
\* 32-bit and the 64-bit field, and around the last second of year 9999.
DeviceTimes32 ==
    {int_of(n) : n \in {0, 1, 28799, 28800, 28801, 1700000000}}
        \cup {[i \in 1..32 |-> 1]}
DeviceTimes64 ==
    DeviceTimes32 \cup {MAX_TIMESTAMP, int_add(MAX_TIMESTAMP, <<1>>),
                        [i \in 1..64 |-> 1]}
HeartbeatBodies ==
    {zeros(24) \o pack_uint(t, 8) \o zeros(32) : t \in DeviceTimes64}
        \cup {zeros(n) : n \in {0, 63, 65}}
RecordEntry(t) == pack_uint(t, 4) \o zeros(12) \o <<47, 97>> \o zeros(98)
RecordListBodies ==
    {<<>>} \cup {RecordEntry(t) : t \in DeviceTimes32}
        \cup {RecordEntry(t) \o RecordEntry(u) : t, u \in DeviceTimes32}
        \cup {zeros(n) : n \in {1, 115, 117}}

\* Frames of every size up to MaxSize, with three contents each.
FrameSeeds == {0, 170, 255}
FrameData == {[i \in 1..n |-> (v + 37 * i) % 256] : n \in 0..MaxSize, v \in FrameSeeds}
\* Keys that are in the tables, at their first, second, 101st and last
\* entry, and 65535, which is in none; the high half of key2 plays no part.
Keys1 == {<<b, a>> : a \in {0, 1, 11918, 65535}, b \in {1, 33776, 65535}}
Keys2 == {<<7, c>> : c \in {0, 18552, 65535}}
OtherTypes == {0, 2, 128}

NextPure ==
    \/ \E count \in FrameCounts, size \in FrameSizes : fix_byte_call(count, size)
    \/ \E data \in FrameData, count \in FrameCounts :
          get_frame_bytes_call(TYPE_ONE, PyInt(0), PyInt(0), data, count)
    \/ \E data \in FrameData, key1 \in Keys1, key2 \in Keys2 :
          get_frame_bytes_call(TYPE_NEW, key1, key2, data, <<>>)
    \/ \E t \in OtherTypes, data \in FrameData :
          get_frame_bytes_call(t, PyInt(1), PyInt(1), data, <<1>>)
    \/ \E a \in PlanArgs, today \in Weekdays : RecordPlan_new(a, today)
    \/ RecordPlan_to_bytes_call
    \/ \E today \in Weekdays : RecordPlan_from_bytes_call(today)
    \/ \E data \in WirePlans, today \in Weekdays : RecordPlan_from_wire(data, today)
    \/ \E data \in HeartbeatBodies : Heartbeat_from_bytes_call(data)
    \/ \E data \in RecordListBodies : iter_from_bytes_call(data)

SpecPure == Init /\ [][NextPure]_vars

Subcommands == {"none", "heartbeat", "stream start", "rec play"}
OutFiles == {"-", "file"}
NextCli ==
    \/ \E sub \in Subcommands, out_file \in OutFiles, quiet \in BOOLEAN :
          cli_main(sub, out_file, quiet)
    \/ \E r \in BOOLEAN : cli_func_return(r)
    \/ cli_with
    \/ cli_interrupt_before
    \/ cli_next_frame
    \/ cli_write
    \/ cli_stream_end
    \/ cli_interrupt_streaming
    \/ cli_except
    \/ cli_exit
    \/ cli_again

SpecCli == Init /\ [][NextCli]_vars

\* ------------------------------------------------------------ the claims
Last(w) == w[Len(w)]
StopCmds == {"stopstream", "stopreplay"}
StopsIn(w) == Cardinality({i \in 1..Len(w) : w[i] \in StopCmds})

\* C1: at every instant at most one session of the instance is connected to
\* the stream port and reading frames, and a session that acquired the
\* stream while another was reading yields no frame.
C1_AtMostOneStreamActive ==
    /\ Cardinality({s \in Sessions : Reading(s)}) <= 1
    /\ \A s \in Sessions : overlap[s] => nyield[s] = 0

\* C2: once every session that was started has ended by retreplayend, by a
\* stop call or by an I/O error on its stream socket, the sockets are closed
\* and the streaming flag is false, so that the next start acquires.
EndedAsListed(s) ==
    /\ Ended(s)
    /\ sock[s] # "none"
    /\ \/ exit[s] \in {"end", "flag", "ioerror"} /\ result[s] = "returned"
       \/ exit[s] = "none" /\ result[s] = "IOError"
C2_ReusableAfterEnd ==
    (/\ \E s \in Sessions : EndedAsListed(s)
     /\ \A s \in Sessions : pc[s] = "new" \/ EndedAsListed(s))
        => /\ ~streaming
           /\ \A s \in Sessions : sock[s] # "open"

\* C3: when stop_video_stream() was called while the reader of a live video
\* stream was blocked on a device gone silent, then once more than two
\* heartbeat periods have passed on the client's clock the generator has
\* returned, and the last command written on its socket is stopstream.
C3_StopReturnsInTwoPeriods ==
    \A s \in Sessions :
        (stopAt[s] > 0 /\ now - stopAt[s] > 2 * STREAM_HB_PERIOD)
            => /\ Ended(s)
               /\ wrote[s] # <<>>
               /\ Last(wrote[s]) = "stopstream"

\* C4: when the read loop of a video or replay stream was left because the
\* flag was cleared or retreplayend came, sendall was called once for a stop
\* command, of type stopstream for video and stopreplay for replay, nothing
\* was read or written after it, and the generator ends without an
\* exception whether or not that sendall failed.
LeftCleanly(s) ==
    /\ kind[s] \in {"video", "replay"}
    /\ exit[s] \in {"flag", "end"}
    /\ pc[s] \in {"cas_end", "done"}
C4_OneStopCommand ==
    \A s \in Sessions :
        LeftCleanly(s) =>
            /\ stopTries[s] = 1
            /\ StopsIn(wrote[s]) <= 1
            /\ StopsIn(wrote[s]) = 1 =>
                  Last(wrote[s]) =
                      (IF kind[s] = "video" THEN "stopstream" ELSE "stopreplay")
            /\ ~readAfterStop[s]
            /\ result[s] = (IF Ended(s) THEN "returned" ELSE "none")
C4_Witness ==
    \E s \in Sessions :
        /\ kind[s] = "replay"
        /\ exit[s] = "end"
        /\ Ended(s)
        /\ nyield[s] > 0
        /\ Last(wrote[s]) = "stopreplay"

\* C5: a Network error or a Framing error inside the stream loop ends the
\* generator like the end of the stream: no exception reaches the consumer.
C5_LoopErrorsSwallowed ==
    \A s \in Sessions :
        (Ended(s) /\ exit[s] \in {"ioerror", "framing"})
            => result[s] \in {"returned", "True", "False"}

\* str.lower() on the digests the device can report.
UpperHexDigits == <<"0", "1", "2", "3", "4", "5", "6", "7", "8", "9",
                    "A", "B", "C", "D", "E", "F">>
lower(r) ==
    IF \E i \in 1..16 : UpperHexDigits[i] = r
      THEN HexDigits[CHOOSE i \in 1..16 : UpperHexDigits[i] = r]
      ELSE r

\* The frame received last fits the state of the download: a start frame
\* first, then frames, then the end frame.
StartedBefore(r, i) == \E j \in 1..(i - 1) : r[j].flag = "start"
FitsDownload(r) ==
    /\ r # <<>>
    /\ LET f == Last(r).flag
           st == StartedBefore(r, Len(r))
       IN  \/ f = "start" /\ ~st
           \/ f \in {"frame", "end"} /\ st

\* C6: a download whose frames came as a download's frames do ends with a
\* boolean, and get_file returns True exactly when an end frame reported a
\* digest that equals, letter case ignored, the hex digest of the bytes
\* written to the sink.
C6_SuccessIffDigestMatches ==
    \A s \in Sessions :
        (kind[s] = "file" /\ Ended(s) /\ FitsDownload(rx[s]))
            => /\ result[s] \in {"True", "False"}
               /\ result[s] = "True"
                     <=> /\ rmd5[s] # "None"
                         /\ lower(rmd5[s])
                               = hexdigest(md5_update(md5_new, sink[s]))

\* The payloads of the frames of r[1..n] that are flagged `frame` and came
\* after a start frame and before the end frame.
EndedBefore(r, i) ==
    \E j \in 1..(i - 1) : r[j].flag = "end" /\ StartedBefore(r, j)
RECURSIVE PayloadsUpTo(_, _)
PayloadsUpTo(r, n) ==
    IF n = 0
      THEN <<>>
      ELSE PayloadsUpTo(r, n - 1)
             \o (IF /\ r[n].flag = "frame"
                    /\ StartedBefore(r, n)
                    /\ ~EndedBefore(r, n)
                   THEN r[n].payload
                   ELSE <<>>)

\* C7: at every point of a download the sink holds the payloads of the
\* frames flagged `frame` that came after a start frame and before the end
\* frame, in arrival order, and nothing else; a start frame, and a frame
\* after it, is taken in and the download goes on to the next frame.
C7_SinkIsFramePayloads ==
    \A s \in Sessions :
        kind[s] = "file" =>
            /\ sink[s] = PayloadsUpTo(rx[s], Len(rx[s]))
            /\ (FitsDownload(rx[s]) /\ Last(rx[s]).flag # "end")
                  => pc[s] \in {"loop", "recv_hdr", "recv_body", "cas_end",
                                "gf_cas", "send_stop"}
                     \/ result[s] \in {"True", "False", "AttributeError"}

\* The frame received last does not fit the state of the download: frame or
\* end before any start, or a start after the download has started.
InvalidForState(r) ==
    /\ r # <<>>
    /\ LET f == Last(r).flag
           st == StartedBefore(r, Len(r))
       IN  \/ f \in {"frame", "end"} /\ ~st
           \/ f = "start" /\ st
NotFoundLast(r) == r # <<>> /\ Last(r).flag = "notfound"

\* C8: a frame that does not fit the state of the download makes get_file
\* return False, and a notfound frame makes it fail with NotFound.
C8_ProtocolErrorIsFalse ==
    \A s \in Sessions :
        (kind[s] = "file" /\ Ended(s))
            => /\ InvalidForState(rx[s]) => result[s] = "False"
               /\ NotFoundLast(rx[s]) => result[s] = "FileNotFoundError"

\* The argument of the call is outside the documented bounds: channel not in
\* [1,13], name or password longer than 32 UTF-8 bytes, duration not in
\* [60,600], list size not in [0,512].
OutOfBounds ==
    CASE op = "set_wifi_channel" -> arg.num \notin 1..13
      [] op \in {"set_wifi_name", "set_wifi_password"} ->
            Len(encode(arg.str)) > 32
      [] op = "set_recording_rotate_duration" -> arg.num \notin 60..600
      [] op = "list_pictures2" -> arg.num \notin 0..512
      [] op = "set_config" ->
            \/ arg.wifi_chan # None /\ Val(arg.wifi_chan) \notin 1..13
            \/ arg.wifi_name # None /\ Len(encode(Val(arg.wifi_name))) > 32
            \/ arg.wifi_pass # None /\ Len(encode(Val(arg.wifi_pass))) > 32
      [] OTHER -> FALSE

\* C9: a call whose argument is outside the documented bounds opens no
\* connection and sends nothing, and ends with ValueError.
C9_RejectedBeforeIO ==
    OutOfBounds => /\ conns = 0
                   /\ sent = <<>>
                   /\ apc = "done" => ret = "ValueError"

\* C10: a Command whose eight args are uint32, encoded by to_bytes and
\* decoded by from_bytes from the same bytes, comes back with the same
\* cmdtype, the same eight args and the same body.
C10_DecodeEncode ==
    (cpc = "decoded" /\ ~damaged)
        => /\ dec.status = "ok"
           /\ dec.cmd.cmdtype = cobj.cmdtype
           /\ dec.cmd.args = cobj.args
           /\ dec.cmd.body = cobj.body
C10_Witness ==
    /\ cpc = "decoded"
    /\ ~damaged
    /\ cobj.cmdtype = "retreplayend"
    /\ cobj.args[HDR_ARG_BODYSZ + 1] = PyInt(256)
    /\ cobj.args[1] = <<65535, 65535>>
    /\ cobj.body = <<0, 255>>
    /\ dec.cmd = cobj

\* The body-size field of the header that starts the bytes b.
BodySizeField(b) == unpack_u32(b, HDR_INTS_OFF + 4 * (HDR_ARG_BODYSZ + 1))

\* C11: every Command, built and modified by the caller or made by
\* from_bytes, has arg slot HDR_ARG_BODYSZ equal to the length of its body,
\* and the body-size field of the bytes to_bytes returns is the number of
\* body bytes after the header.
C11_BodySizeIsLen ==
    /\ cobj # NoCmd => cobj.args[HDR_ARG_BODYSZ + 1] = PyInt(Len(cobj.body))
    /\ dec.status = "ok"
          => dec.cmd.args[HDR_ARG_BODYSZ + 1] = PyInt(Len(dec.cmd.body))
    /\ (cpc = "encoded" /\ ~damaged)
          => BodySizeField(buf) = PyInt(Len(buf) - HDR_LEN)

\* fix_byte with every intermediate value reduced modulo 2^32 and the
\* quotient taken on integers: v2 mod p2.
v2_mod_p2(p1, p2) ==
    LET a == int_low(p1, 32)
        v2 == IF int_bit(p2, 1) = 0
                THEN int_xor(int_low(int_add(int_add(p2, <<1>>), int_xor(p2, a)), 32), p2)
                ELSE int_xor(int_low(int_add(int_xor(p2, a), p2), 32), p2)
    IN  int_sub(v2, int_mul(int_floordiv(v2, p2), p2))

\* C12: for every size p2 > 0 and every count p1, counts of more than 32 bits
\* included, fix_byte(p1, p2) is below p2 and is v2 mod p2 with all the
\* arithmetic taken modulo 2^32.
C12_FixByteIsRemainder ==
    (fn = "fix_byte" /\ inp[2] # <<>>)
        => /\ int_less(out, inp[2])
           /\ out = v2_mod_p2(inp[1], inp[2])

\* C13 as stated: fix_byte(0, 100) = 1, fix_byte(7, 4) = 3,
\* fix_byte(7, 5) = 2 and fix_byte(0, 0) = 0.
C13_ScenarioValues ==
    fn = "fix_byte"
        => /\ inp = <<int_of(0), int_of(100)>> => out = int_of(1)
           /\ inp = <<int_of(7), int_of(4)>> => out = int_of(3)
           /\ inp = <<int_of(7), int_of(5)>> => out = int_of(2)
           /\ inp = <<int_of(0), int_of(0)>> => out = int_of(0)

\* C13, amended: fix_byte(0, 100) = 73, fix_byte(7, 4) = 0,
\* fix_byte(7, 5) = 2 and fix_byte(0, 0) = 1.
C13_ScenarioValuesOfCode ==
    fn = "fix_byte"
        => /\ inp = <<int_of(0), int_of(100)>> => out = int_of(73)
           /\ inp = <<int_of(7), int_of(4)>> => out = int_of(0)
           /\ inp = <<int_of(7), int_of(5)>> => out = int_of(2)
           /\ inp = <<int_of(0), int_of(0)>> => out = int_of(1)
C13_Witness ==
    fn = "fix_byte" /\ inp = <<int_of(0), int_of(100)>> /\ out = int_of(73)

\* C14: RecordPlan.from_bytes(r.to_bytes()) equals r in is_active,
\* active_days, start_time, end_time and max_duration, an end_time of
\* 00:00:00 and a max_duration of 0 included, and from_bytes rejects every
\* buffer whose length is not 20.
C14_PlanRoundTrip ==
    fn = "from_bytes"
        => /\ Len(inp[2]) # RecordPlan_LEN => out.status = "ValueError"
           /\ inp[1] # NoPlan => (out.status = "ok" /\ out.plan = inp[1])

\* The device time of entry i of a record list body.
EntryTime(data, i) ==
    sint(FALSE, int_norm(unpack_uint(data, (i - 1) * RecordListItem_LEN, 4)))
EightHours == sint(FALSE, int_of(28800))

\* C15: for every device time t of a Heartbeat body or of a RecordListItem
\* entry, the instant handed to the caller (Heartbeat.time,
\* RecordListItem.start_time) is the UTC instant whose unix seconds are
\* t - 28800: its timestamp plus 28800 is t, and its timezone is UTC. (A
\* Heartbeat time past year 9999 hands no instant over: from_bytes raises.)
C15_EightHoursBack ==
    /\ (fn = "Heartbeat.from_bytes" /\ out.status = "ok")
          => /\ sint_add(timestamp(out.time), EightHours)
                    = sint(FALSE, int_norm(unpack_uint(inp, 24, 8)))
             /\ out.time.utcoffset = sint(FALSE, <<>>)
    /\ (fn = "RecordListItem.iter_from_bytes" /\ out.status = "ok")
          => /\ Len(out.items) * RecordListItem_LEN = Len(inp)
             /\ \A i \in 1..Len(out.items) :
                   /\ sint_add(timestamp(out.items[i].start_time), EightHours)
                          = EntryTime(inp, i)
                   /\ out.items[i].start_time.utcoffset = sint(FALSE, <<>>)
C15_Witness ==
    /\ fn = "RecordListItem.iter_from_bytes"
    /\ Len(out.items) = 2
    /\ timestamp(out.items[1].start_time) = sint(FALSE, int_of(1700000000 - 28800))
    /\ timestamp(out.items[2].start_time) = sint(TRUE, int_of(28800))

\* The value of an optional argument, or the one get_config read.
PassedOr(o, read) == IF o # None THEN Val(o) ELSE read

\* C16: the body of the setconfig command set_config sends carries, for each
\* of wifi channel, wifi name, wifi password, wifi security and camera flip,
\* the argument when one was passed and the value get_config just read when
\* none was; a passed wifi_pass is the password of the body.
C16_SetConfigBody ==
    \A i \in 1..Len(sent) :
        (op = "set_config" /\ sent[i].type = "setconfig")
            => LET b == sent[i].body
               IN  /\ b.wifi_chan = PassedOr(arg.wifi_chan, DeviceConfig.wifi_chan)
                   /\ b.wifi_name = PassedOr(arg.wifi_name, DeviceConfig.wifi_name)
                   /\ b.wifi_pass_ = PassedOr(arg.wifi_pass, DeviceConfig.wifi_pass_)
                   /\ b.wifi_sec = PassedOr(arg.wifi_sec, DeviceConfig.wifi_sec)
                   /\ b.flip = PassedOr(arg.camflip, DeviceConfig.flip)

\* C18: when a KeyboardInterrupt arrives while `stream start` or `rec play`
\* is streaming frames to its output, main runs the stop hook of the
\* subcommand and the exit code is 0 if the hook returned true, 1 otherwise.
C18_InterruptRunsStopHook ==
    (cli.pc = "done" /\ cli.interrupt = "streaming")
        => /\ cli.hook # "none"
           /\ cli.code = IF cli.hook = "True" THEN 0 ELSE 1

\* C17: a stream operation that has ended, however it ended, has no open
\* stream socket, and a single-shot operation whose _send_cmd has returned
\* or raised has no open command socket.
C17_SocketsClosed ==
    /\ \A s \in Sessions : Ended(s) => sock[s] # "open"
    /\ apc \in {"reply", "done"} => cmdsock # "open"
\* a stream generator closed by its consumer after a frame, with its socket
\* closed, beside a command whose reply did not decode
C17_Witness ==
    /\ Ended(One)
    /\ result[One] = "closed"
    /\ sock[One] = "closed"
    /\ apc = "done"
    /\ ret = "ValueError"
    /\ cmdsock = "closed"

\* The step writes a heartbeat on the socket of session s.
WritesHeartbeat(s) ==
    /\ Len(wrote'[s]) = Len(wrote[s]) + 1
    /\ Last(wrote'[s]) = "heartbeat"
HeartbeatsIn(w) == Cardinality({i \in 1..Len(w) : w[i] = "heartbeat"})

\* C19: the client writes a heartbeat on the stream socket only when a frame
\* has been read whole and yielded and the next header read has not begun,
\* never between a frame's header and its body, and more than
\* STREAM_HB_PERIOD of the client's clock after the heartbeat it wrote
\* before on that socket.
C19_HeartbeatPlacement ==
    [][\A s \in Sessions :
          WritesHeartbeat(s)
              => /\ nyield[s] >= 1
                 /\ nread[s] >= nyield[s]
                 /\ hdr[s] = "none"
                 /\ cur[s] = NoFrame
                 /\ pc[s] \notin {"recv_hdr", "recv_body", "yielded"}
                 /\ pc'[s] = "loop"
                 /\ lastHb[s] # -1 => now - lastHb[s] > STREAM_HB_PERIOD]_vars
\* two heartbeats were written on one socket
C19_Witness == HeartbeatsIn(wrote[One]) = 2 /\ lastHb[One] >= 4

\* The body of a frame has been received: line 392 returned.
BodyRead(s) == pc[s] = "recv_body" /\ hdr'[s] = "none" /\ hdr[s] # "none"

\* C20: a frame whose header says heartbeat is not yielded: once its body
\* is read the reader waits for the next header, however many heartbeat
\* responses came before it in a row; any frame that is neither a heartbeat
\* nor the end of the stream is yielded as soon as its body is read, before
\* the next header is read, so that the frames yielded are the
\* non-heartbeat frames in the order of their arrival.
C20_HeartbeatsDropped ==
    [][\A s \in Sessions :
          BodyRead(s) =>
              /\ hdr[s] = "heartbeat" =>
                    /\ pc'[s] = "recv_hdr"
                    /\ nyield'[s] = nyield[s]
                    /\ cur'[s] = cur[s]
                    /\ result'[s] = result[s]
              /\ hdr[s] = "frame" =>
                    /\ pc'[s] = "yielded"
                    /\ nyield'[s] = nyield[s] + 1
                    /\ cur'[s] # NoFrame]_vars


\* C21: on a video or replay stream, the step that reads the body of a
\* retreplayend frame yields nothing and leaves the loop; from then on no
\* header is read and no frame is yielded on the socket; and when the
\* generator ends, sendall was called once for the stop command, which is the
\* last thing written unless that sendall failed, the generator returns, its
\* socket is closed and the streaming flag is false.
LeftByEnd(s) == kind[s] \in {"video", "replay"} /\ exit[s] = "end"
C21_ReplayEndTerminates ==
    [][\A s \in Sessions :
          /\ (BodyRead(s) /\ hdr[s] = "retreplayend" /\ kind[s] # "file")
                => /\ nyield'[s] = nyield[s]
                   /\ cur'[s] = NoFrame
                   /\ pc'[s] = "send_stop"
                   /\ exit'[s] = "end"
          /\ LeftByEnd(s)
                => /\ nread'[s] = nread[s]
                   /\ nyield'[s] = nyield[s]
                   /\ exit'[s] = "end"
                   /\ pc'[s] \in {"send_stop", "cas_end", "done"}
          /\ (LeftByEnd(s) /\ ~Ended(s) /\ Ended(s)')
                => /\ stopTries[s] = 1
                   /\ StopsIn(wrote[s]) <= 1
                   /\ StopsIn(wrote[s]) = 1 =>
                         Last(wrote[s]) = STOP_CMDTYPE(kind[s])
                   /\ result'[s] = "returned"
                   /\ sock'[s] = "closed"
                   /\ ~streaming']_vars
C21_Witness ==
    /\ LeftByEnd(One)
    /\ Ended(One)
    /\ nread[One] = 2
    /\ nyield[One] = 1
    /\ Head(wrote[One]) = "startreplay"
    /\ Last(wrote[One]) = "stopreplay"
    /\ ~streaming

\* C22: a file download writes no stop command on its socket, and once its
\* stream loop was left because the end frame came, because of an I/O error
\* in the loop or because the flag was cleared, get_file has returned True
\* or False.
LoopLeftAsListed(s) ==
    \/ exit[s] \in {"flag", "ioerror"}
    \/ rx[s] # <<>> /\ Last(rx[s]).flag = "end"
C22_NoStopForFile ==
    \A s \in Sessions :
        kind[s] = "file" =>
            /\ StopsIn(wrote[s]) = 0
            /\ (Ended(s) /\ LoopLeftAsListed(s))
                  => result[s] \in {"True", "False"}

\* The bytes b are too few for a header, or do not start with the ten bytes
\* of the magic, or their cmdtype field, read least significant byte first,
\* is the value of no member of CommandType.
TooShort(b) == Len(b) < 46
WrongMagic(b) == \E i \in 1..10 : b[i] # HDR_MAGIC[i]
UnknownType(b) ==
    \/ b[13] # 0
    \/ b[14] # 0
    \/ \A n \in DOMAIN CommandType : CommandType[n] # b[11] + 256 * b[12]

\* C23: Command.from_bytes raises, and returns no Command, on bytes that are
\* fewer than 46, or whose first ten are not the magic, or whose cmdtype
\* field is no CommandType; it accepts all other bytes, and the Command does
\* not depend on anything else.
C23_FromBytesRejects ==
    cpc \in {"decoded", "header"} =>
        LET b == IF cpc = "header" THEN SubSeq(buf, 1, HDR_LEN) ELSE buf
        IN  IF TooShort(b) \/ WrongMagic(b) \/ UnknownType(b)
              THEN dec.status \in {"IOError", "ValueError"} /\ dec.cmd = NoCmd
              ELSE dec.status = "ok" /\ dec.cmd # NoCmd
C23_Witness ==
    /\ cpc = "decoded"
    /\ damaged
    /\ Len(buf) = HDR_LEN + 2
    /\ buf[HDR_MAGIC_LEN] = 1
    /\ dec.status = "ValueError"

\* z is x XOR y on bytes: bit by bit, z has a one where x and y differ.
IsXor(z, x, y) ==
    /\ z \in 0..255
    /\ \A i \in 0..7 :
          ((z \div 2^i) % 2 = 1) <=> ((x \div 2^i) % 2 # (y \div 2^i) % 2)
\* The key p is in the table, and the index, from 0, of its first entry.
HasKey(table, p) == \E i \in 1..256 : table[i] = p
SmallestIndex(table, p) ==
    LET S == {i \in 1..256 : table[i] = p}
    IN  (CHOOSE i \in S : \A j \in S : i <= j) - 1
\* The byte of the frame f at index i, from 0.
ByteAt(f, i) == f[i + 1]

\* C24: for stream_type 129, with idx = size >> 1, a and b the low and the
\* high 16 bits of key1 and c the low 16 bits of key2, a frame that unmunge
\* returns has frame[idx] = the smallest i0 with MDATA1[i0] = a,
\* frame[idx+1] = frame[idx] XOR the smallest i1 with MDATA2[i1] = b, and
\* frame[idx+2] = frame[idx] XOR frame[idx+1] XOR the smallest i2 with
\* MDATA3[i2] = c, each on the bytes as patched; a byte whose key is in no
\* table entry is as it was, and so is every other byte and the length.
C24_MidstreamPatch ==
    (fn = "unmunge" /\ inp.type = 129 /\ out.status = "ok") =>
        LET d == inp.data
            f == out.data
            n == Len(d)
            idx == n \div 2
            a == inp.key1[2]
            b == inp.key1[1]
            c == inp.key2[2]
        IN  /\ Len(f) = n
            /\ IF HasKey(MDATA1, a)
                  THEN ByteAt(f, idx) = SmallestIndex(MDATA1, a)
                  ELSE idx < n => ByteAt(f, idx) = ByteAt(d, idx)
            /\ IF HasKey(MDATA2, b)
                  THEN IsXor(ByteAt(f, idx + 1), ByteAt(f, idx),
                             SmallestIndex(MDATA2, b))
                  ELSE idx + 1 < n => ByteAt(f, idx + 1) = ByteAt(d, idx + 1)
            /\ IF HasKey(MDATA3, c)
                  THEN \E x \in 0..255 :
                          /\ IsXor(x, ByteAt(f, idx), ByteAt(f, idx + 1))
                          /\ IsXor(ByteAt(f, idx + 2), x,
                                   SmallestIndex(MDATA3, c))
                  ELSE idx + 2 < n => ByteAt(f, idx + 2) = ByteAt(d, idx + 2)
            /\ \A i \in 0..(n - 1) :
                  i \notin {idx, idx + 1, idx + 2} => ByteAt(f, i) = ByteAt(d, i)
C24_Witness ==
    /\ fn = "unmunge"
    /\ inp.type = 129
    /\ Len(inp.data) = 7
    /\ inp.key1 = <<33776, 11918>>
    /\ inp.key2 = <<7, 18552>>
    /\ out.status = "ok"
    /\ SubSeq(out.data, 4, 6) = <<255, 155, 155>>

\* C25: for stream_type 1 unmunge returns the frame with the byte at
\* idx = fix_byte(count, size) complemented when 0 <= idx < size and every
\* other byte and the length as they were, and the frame as it was when idx
\* is out of range; for stream_type 0 it returns the frame as it was; and
\* the type-1 transform applied to its own result with the same count and
\* size gives the frame back.
C25_OneByteFlip ==
    (fn = "unmunge" /\ inp.type \in {0, 1}) =>
        LET d == inp.data
            f == out.data
            n == Len(d)
            idx == fix_byte(inp.count, int_of(n))
            su == VideoFrameUnmunger(inp.type, inp.key1, inp.key2)
        IN  /\ out.status = "ok"
            /\ Len(f) = n
            /\ inp.type = 0 => f = d
            /\ inp.type = 1 =>
                  /\ \A i \in 0..(n - 1) :
                        ByteAt(f, i) = IF int_of(i) = idx
                                         THEN 255 - ByteAt(d, i)
                                         ELSE ByteAt(d, i)
                  /\ get_frame_bytes(su, f, n, inp.count)
                        = [status |-> "ok", data |-> d]
C25_Witness ==
    /\ fn = "unmunge"
    /\ inp.type = 1
    /\ Len(inp.data) = 5
    /\ inp.count = <<0, 1, 1>>
    /\ \E i \in 0..4 :
          /\ ByteAt(out.data, i) = 255 - ByteAt(inp.data, i)
          /\ \A j \in 0..4 : j # i => ByteAt(out.data, j) = ByteAt(inp.data, j)

\* C27: decoding a frame never raises because of the frame's size, and
\* keeps its length: for every size and every stream_type unmunge returns a
\* frame of the size it was given.
C27_UnmungeInBounds ==
    fn = "unmunge" => /\ out.status = "ok"
                      /\ Len(out.data) = Len(inp.data)

\* The socket calls of one _send_cmd, by their place in the protocol.
Rank(e) ==
    CASE e.call = "create_connection" -> 1
      [] e.call = "sendall" -> 2
      [] e.call = "recv" /\ e.phase = "hdr" -> 3
      [] e.call = "recv" /\ e.phase = "body" -> 4
      [] OTHER -> 5
CallsOf(c) == {i \in 1..Len(io_log) : io_log[i].call = c}
RecvsOf(phase) ==
    {i \in 1..Len(io_log) : io_log[i].call = "recv" /\ io_log[i].phase = phase}
RECURSIVE GotUpTo(_, _)
GotUpTo(phase, i) ==
    IF i = 0 THEN 0
    ELSE GotUpTo(phase, i - 1)
           + (IF i \in RecvsOf(phase) /\ io_log[i].got > 0
                THEN io_log[i].got ELSE 0)
Got(phase) == GotUpTo(phase, Len(io_log))
Announced(phase) == IF phase = "hdr" THEN HDR_LEN ELSE body_size
\* C26: _send_cmd opens one connection, writes the request once, reads the
\* 46 header bytes and then the body_size body bytes, and closes, in this
\* order; every recv asks for what is still missing, a short recv is
\* followed by another one, an EOF or error before the count is complete
\* ends the call with IOError, a response is only returned with
\* header and body complete, and the request is written at most once.
C26_SendCmdProtocol ==
    /\ \A i, j \in 1..Len(io_log) : i < j => Rank(io_log[i]) <= Rank(io_log[j])
    /\ Cardinality(CallsOf("create_connection")) <= 1
    /\ Cardinality(CallsOf("sendall")) <= 1
    /\ Cardinality(CallsOf("close")) <= 1
    /\ \A phase \in {"hdr", "body"} : \A i \in RecvsOf(phase) :
         /\ io_log[i].asked = Announced(phase) - GotUpTo(phase, i - 1)
         /\ io_log[i].asked > 0
         /\ io_log[i].got <= io_log[i].asked
         /\ io_log[i].got <= 0 =>
              /\ i + 1 = Len(io_log)
              /\ io_log[i + 1] = Close
              /\ io_ret = "IOError"
    /\ io_ret = "returned" =>
         /\ Cardinality(CallsOf("create_connection")) = 1
         /\ Cardinality(CallsOf("sendall")) = 1
         /\ Last(io_log) = Close
         /\ hdr_len = HDR_LEN /\ Got("hdr") = HDR_LEN
         /\ body_size >= 0
         /\ body_len = body_size /\ Got("body") = body_size
    /\ io_ret \notin {"none", "ConnectError"} => Last(io_log) = Close
\* A response returned after the header came in three pieces and the body
\* in two.
C26_Witness ==
    /\ io_ret = "returned"
    /\ Cardinality(RecvsOf("hdr")) = 3
    /\ Cardinality(RecvsOf("body")) = 2
    /\ body_len = 3

\* The generator s was suspended at its yield when a later session set the
\* flag, and that later session is still running with the flag set.
LaterActive(s) ==
    /\ superseded[s]
    /\ streaming
    /\ owner \in Sessions \ {s}
    /\ pc[owner] \notin {"new", "done"}
\* C28: after stop_video_stream() and the start of a new stream while the
\* earlier generator was suspended at a yield, no step of the earlier
\* generator reads a further header from its socket or clears the streaming
\* flag while the later session is running.
C28_ClearsOnlyOwnFlag ==
    [][\A s \in Sessions :
         LaterActive(s) =>
           /\ nread'[s] = nread[s]
           /\ ~(pc[s] = "cas_end" /\ pc'[s] # "cas_end" /\ ~streaming')]_vars

\* The session started streaming and ended on none of the listed paths: its
\* generator was closed at a yield (the consumer left its loop or raised),
\* or decoding what was received, or get_file itself, raised.
EndedOtherwise(s) ==
    /\ Ended(s)
    /\ sock[s] # "none"
    /\ result[s] \in {"closed", "ValueError", "TypeError", "FileNotFoundError"}
\* C29: once a session has ended by a closed generator or by an exception
\* that is no I/O error, and no session is running, the streaming flag is
\* false.
C29_FlagClearedOnOtherPaths ==
    (/\ \E s \in Sessions : EndedOtherwise(s)
     /\ \A s \in Sessions : pc[s] \in {"new", "done"})
        => ~streaming

\* The device delivered a start frame, and an end frame after a start frame.
StartedIn(r) == \E i \in 1..Len(r) : r[i].flag = "start"
EndAfterStart(r) ==
    \E i \in 1..Len(r) : r[i].flag = "end" /\ StartedBefore(r, i)
\* C30: get_file has returned True only if a start frame and later an end
\* frame were received; when the download began and the stream ended before
\* the end frame, or the stream loop was left by an I/O error, get_file has
\* returned False.
C30_NoSuccessWhenIncomplete ==
    \A s \in Sessions :
        (kind[s] = "file" /\ Ended(s)) =>
            /\ result[s] = "True" => EndAfterStart(rx[s])
            /\ (exit[s] = "ioerror" /\ ~EndAfterStart(rx[s]))
                  => result[s] = "False"
            /\ (StartedIn(rx[s]) /\ ~EndAfterStart(rx[s]))
                  => result[s] = "False"

====
